---- MODULE Spec2Model ----
(***************************************************************************)
(* Timetable collection store and timetable resolver of the shift PDF      *)
(* server: indexing of source documents into dated collections             *)
(* (index_trip_sheets, load_pdf_and_index), resolution of the active       *)
(* collections for a date (get_valid_timetables), the cascading lookup      *)
(* (find_shift) and the request handler (get_shift) with its shared state.  *)
(***************************************************************************)
EXTENDS Integers, Sequences, FiniteSets, TLC

(***************************************************************************)
(* Bounds                                                                  *)
(***************************************************************************)
\* Dates are day numbers 0..MaxDate.
MaxDate == 3

\* Date::from_iso_week_date(2000, 20, Monday): valid_from of the placeholder
\* collection, as a day number.
PlaceholderDate == 0

Dates == 0..MaxDate

\* Absent values: Option<Date>::None, an absent record, a missing file, and
\* find_shift's None.
NoDate == 0 - 1
None == [none |-> TRUE]
NoFile == [no_file |-> TRUE]
NotFound == [not_found |-> TRUE]

\* A collection file whose bytes do not deserialize, and the error of
\* serde_json::from_slice.
Corrupt == [corrupt |-> TRUE]
JsonError == [error |-> "Json"]

(***************************************************************************)
(* Characters and strings (a string is a sequence of one-character         *)
(* strings)                                                                *)
(***************************************************************************)
Upper == <<"G", "M", "X", "J", "S", "O", "N", "R", "E", "F", "H", "I", "D">>
Lower == <<"g", "m", "x", "j", "s", "o", "n", "r", "e", "f", "h", "i", "d">>
UpperLetters == {Upper[i] : i \in 1..Len(Upper)}
LowerLetters == {Lower[i] : i \in 1..Len(Lower)}
Digits == {"0", "1", "2", "3", "4", "5", "6", "7", "8", "9"}

is_alphabetic(c) == c \in UpperLetters \cup LowerLetters
is_numeric(c) == c \in Digits

FilterAlphabetic(s) == SelectSeq(s, LAMBDA c : is_alphabetic(c))
FilterNumeric(s) == SelectSeq(s, LAMBDA c : is_numeric(c))
FilterNotAlphabetic(s) == SelectSeq(s, LAMBDA c : ~is_alphabetic(c))
RemoveSpaces(s) == SelectSeq(s, LAMBDA c : c # " ")

\* char::to_uppercase / str::to_uppercase
to_uppercase(c) ==
    IF c \in LowerLetters THEN Upper[CHOOSE i \in 1..Len(Lower) : Lower[i] = c] ELSE c
ToUppercase(s) == [i \in 1..Len(s) |-> to_uppercase(s[i])]

\* s.split(".").last(): the text after the last ".", all of s when it has none.
RECURSIVE LastPart(_)
LastPart(s) ==
    IF \A i \in 1..Len(s) : s[i] # "." THEN s
    ELSE LastPart(Tail(s))

(***************************************************************************)
(* Sequences of dates                                                      *)
(***************************************************************************)
RECURSIVE Insert(_, _)
Insert(x, s) ==
    IF s = <<>> THEN <<x>>
    ELSE IF x < Head(s) THEN <<x>> \o s
    ELSE <<Head(s)>> \o Insert(x, Tail(s))

RECURSIVE SortAsc(_)
SortAsc(s) == IF s = <<>> THEN <<>> ELSE Insert(Head(s), SortAsc(Tail(s)))

Reverse(s) == [i \in 1..Len(s) |-> s[Len(s) + 1 - i]]

Range(s) == {s[i] : i \in 1..Len(s)}

Front(s) == SubSeq(s, 1, Len(s) - 1)

Max(S) == CHOOSE x \in S : \A y \in S : y <= x
Min(S) == CHOOSE x \in S : \A y \in S : x <= y

\* Every enumeration order of a finite set.
RECURSIVE Orders(_)
Orders(S) ==
    IF S = {} THEN {<<>>}
    ELSE UNION {{<<x>> \o o : o \in Orders(S \ {x})} : x \in S}

(***************************************************************************)
(* Collections                                                             *)
(***************************************************************************)
EmptyMap == [k \in {} |-> 0]

\* PdfTimetableCollection::new()
NewCollection == [valid_from |-> PlaceholderDate, files |-> EmptyMap, pages |-> EmptyMap]

\* HashMap::extend / HashMap::insert: the inserted entries replace equal keys.
Extend(old, new) ==
    [k \in DOMAIN old \cup DOMAIN new |-> IF k \in DOMAIN new THEN new[k] ELSE old[k]]

(***************************************************************************)
(* Source documents: a path, the starting_date of the first parsed shift,  *)
(* and per page the shift names captured by the "Dienst" pattern.          *)
(***************************************************************************)
N1 == <<"1", "0", "0", "1">>
N2 == <<"1", "0", "0", "2">>
Ids == {N1, N2}

Name(prefix, number) == prefix \o <<" ">> \o number

\* Mutant of IndexCapture: the key is the whole name, prefix included.
IndexCaptureKeyedByName(index, shift_name, page_num, file_id) ==
    LET shift_name_formatted == RemoveSpaces(shift_name)
        shift_prefix == FilterAlphabetic(shift_name_formatted)
    IN  IF shift_name_formatted \in DOMAIN index
        THEN [index EXCEPT ![shift_name_formatted].pages = Append(@, page_num)]
        ELSE Extend(index, [k \in {shift_name_formatted} |->
                 [pages |-> <<page_num>>, file_id |-> file_id, shift_prefix |-> shift_prefix]])

\* One step of the capture loop of index_trip_sheets for a capture on page_num.
IndexCapture(index, shift_name, page_num, file_id) ==
    LET shift_name_formatted == RemoveSpaces(shift_name)
        shift_number == FilterNumeric(shift_name_formatted)
        shift_prefix == FilterAlphabetic(shift_name_formatted)
    IN  IF shift_number \in DOMAIN index
        THEN [index EXCEPT ![shift_number].pages = Append(@, page_num)]
        ELSE Extend(index, [k \in {shift_number} |->
                 [pages |-> <<page_num>>, file_id |-> file_id, shift_prefix |-> shift_prefix]])

RECURSIVE IndexCaptures(_, _, _, _)
IndexCaptures(index, caps, page_num, file_id) ==
    IF caps = <<>> THEN index
    ELSE IndexCaptures(IndexCapture(index, Head(caps), page_num, file_id),
                       Tail(caps), page_num, file_id)

\* The page loop of index_trip_sheets: pages in ascending page number, from 1.
RECURSIVE IndexPages(_, _, _, _)
IndexPages(index, pages, page_num, file_id) ==
    IF page_num > Len(pages) THEN index
    ELSE IndexPages(IndexCaptures(index, pages[page_num], page_num, file_id),
                    pages, page_num + 1, file_id)

BuildIndex(doc, file_id) == IndexPages(EmptyMap, doc.pages, 1, file_id)

\* Mutant of MergeCollection: an existing pages entry is kept on a collision.
MergeCollectionKeepExisting(existing, doc, file_id) ==
    LET index == BuildIndex(doc, file_id)
    IN  IF existing # NoFile
        THEN [existing EXCEPT !.files = Extend(@, [k \in {file_id} |-> doc.path]),
                              !.pages = Extend(index, @)]
        ELSE [valid_from |-> doc.starting_date,
              files |-> [k \in {file_id} |-> doc.path],
              pages |-> index]

\* Mutant of MergeCollection: on a collision the page list of the existing
\* entry is kept and the document's pages are appended to it.
MergeCollectionAppendPages(existing, doc, file_id) ==
    LET index == BuildIndex(doc, file_id)
    IN  IF existing # NoFile
        THEN [existing EXCEPT
                 !.files = Extend(@, [k \in {file_id} |-> doc.path]),
                 !.pages = [k \in DOMAIN @ \cup DOMAIN index |->
                               IF k \in DOMAIN @ /\ k \in DOMAIN index
                               THEN [index[k] EXCEPT !.pages = existing.pages[k].pages \o @]
                               ELSE IF k \in DOMAIN index THEN index[k] ELSE @[k]]]
        ELSE [valid_from |-> doc.starting_date,
              files |-> [k \in {file_id} |-> doc.path],
              pages |-> index]

\* Mutant of MergeCollection: an existing collection takes the document's
\* pages but not its path.
MergeCollectionPagesOnly(existing, doc, file_id) ==
    LET index == BuildIndex(doc, file_id)
    IN  IF existing # NoFile
        THEN [existing EXCEPT !.pages = Extend(@, index)]
        ELSE [valid_from |-> doc.starting_date,
              files |-> [k \in {file_id} |-> doc.path],
              pages |-> index]

\* The collection index_trip_sheets writes for a document, given what it read
\* at the collection's path (a collection, or NoFile).
MergeCollection(existing, doc, file_id) ==
    LET index == BuildIndex(doc, file_id)
    IN  IF existing # NoFile
        THEN [existing EXCEPT !.files = Extend(@, [k \in {file_id} |-> doc.path]),
                              !.pages = Extend(@, index)]
        ELSE [valid_from |-> doc.starting_date,
              files |-> [k \in {file_id} |-> doc.path],
              pages |-> index]

\* index_trip_sheets run without interruption on the collection files d.
IndexTripSheets(d, doc, file_id) ==
    [d EXCEPT ![doc.starting_date] = MergeCollection(d[doc.starting_date], doc, file_id)]

RECURSIVE IndexFrom(_, _, _)
IndexFrom(d, file_paths, i) ==
    IF i > Len(file_paths) THEN d
    ELSE IndexFrom(IndexTripSheets(d, file_paths[i], i - 1), file_paths, i + 1)

EmptyDisk == [x \in Dates |-> NoFile]

\* load_pdf_and_index run without interruption: the directory is emptied and
\* every document is indexed in order, its position being its file id.
LoadPdfAndIndex(file_paths) == IndexFrom(EmptyDisk, file_paths, 1)

(***************************************************************************)
(* Resolver: get_valid_timetables                                          *)
(***************************************************************************)
\* The names of the collection files in the directory d.
Files(d) == {x \in Dates : d[x] # NoFile}

\* Mutant of ValidTimetablesStep: a collection is active only after its date.
ValidTimetablesStepStrict(st, file, current_date) ==
    LET mr == IF file.valid_from > st.most_recent.valid_from /\ file.valid_from < current_date
              THEN file ELSE st.most_recent
        up == IF ~(file.valid_from > st.most_recent.valid_from /\ file.valid_from < current_date)
                 /\ file.valid_from >= current_date
              THEN Append(st.upcoming, file.valid_from) ELSE st.upcoming
        ac == IF file.valid_from < current_date
              THEN Append(st.active, file.valid_from) ELSE st.active
    IN  [most_recent |-> mr, upcoming |-> up, active |-> ac]

\* One iteration of the loop over the collection files.
ValidTimetablesStep(st, file, current_date) ==
    LET mr == IF file.valid_from > st.most_recent.valid_from /\ file.valid_from <= current_date
              THEN file ELSE st.most_recent
        up == IF ~(file.valid_from > st.most_recent.valid_from /\ file.valid_from <= current_date)
                 /\ file.valid_from > current_date
              THEN Append(st.upcoming, file.valid_from) ELSE st.upcoming
        ac == IF file.valid_from <= current_date
              THEN Append(st.active, file.valid_from) ELSE st.active
    IN  [most_recent |-> mr, upcoming |-> up, active |-> ac]

RECURSIVE ValidTimetablesLoop(_, _, _, _)
ValidTimetablesLoop(st, d, order, current_date) ==
    IF order = <<>> THEN st
    ELSE ValidTimetablesLoop(ValidTimetablesStep(st, d[Head(order)], current_date),
                             d, Tail(order), current_date)

\* Mutant of NextTimetable: the list is not sorted before its first element
\* is taken.
NextTimetableUnsorted(upcoming) == IF upcoming = <<>> THEN NoDate ELSE upcoming[1]

\* upcoming_timetables.sort(); upcoming_timetables.first().cloned()
NextTimetable(upcoming) ==
    LET sorted == SortAsc(upcoming) IN IF sorted = <<>> THEN NoDate ELSE sorted[1]

\* active_timetables.sort_by_key(..); active_timetables.reverse()
ActiveTimetables(active) == Reverse(SortAsc(active))

\* The date get_valid_timetables compares with: the caller's, or the clock's.
CurrentDate(date, clock) == IF date # NoDate THEN date ELSE clock

\* get_valid_timetables over the directory d read in the order `order`, for
\* the date current_date.
GetValidTimetables(d, order, current_date) ==
    LET st == ValidTimetablesLoop(
                  [most_recent |-> NewCollection, upcoming |-> <<>>, active |-> <<>>],
                  d, order, current_date)
    IN  [active |-> ActiveTimetables(st.active),
         most_recent |-> st.most_recent,
         next |-> NextTimetable(st.upcoming),
         upcoming |-> st.upcoming]

\* get_valid_timetables as a Result: the error of line 203 at a file that
\* does not deserialize, before anything is returned or written.
GetValidTimetablesResult(d, order, current_date) ==
    IF \E i \in 1..Len(order) : d[order[i]] = Corrupt THEN JsonError
    ELSE [ok |-> GetValidTimetables(d, order, current_date)]

(***************************************************************************)
(* Resolver: find_shift                                                    *)
(***************************************************************************)
\* valid_timetables.pop(): the removed element.
Popped(valid_timetables) == valid_timetables[Len(valid_timetables)]

\* Mutant of FindShift: the search ends at the first popped collection that
\* does not list the number.
FindShiftOneFallback(shift_number, valid_timetables, most_recent_timetable, d) ==
    LET shift_number_no_chars == FilterNotAlphabetic(shift_number)
        Entry(current_timetable) ==
            [collection |-> current_timetable,
             data |-> current_timetable.pages[shift_number_no_chars]]
    IN  IF shift_number_no_chars \in DOMAIN most_recent_timetable.pages
        THEN Entry(most_recent_timetable)
        ELSE IF valid_timetables = <<>> THEN NotFound
        ELSE IF d[Popped(valid_timetables)] \in {NoFile, Corrupt} THEN NotFound
        ELSE IF shift_number_no_chars \in DOMAIN d[Popped(valid_timetables)].pages
        THEN Entry(d[Popped(valid_timetables)])
        ELSE NotFound

RECURSIVE FindShift(_, _, _, _)
FindShift(shift_number, valid_timetables, most_recent_timetable, d) ==
    LET shift_number_no_chars == FilterNotAlphabetic(shift_number)
        Probe(current_timetable, rest) ==
            IF shift_number_no_chars \in DOMAIN current_timetable.pages
            THEN [collection |-> current_timetable,
                  data |-> current_timetable.pages[shift_number_no_chars]]
            ELSE FindShift(shift_number_no_chars, rest, None, d)
    IN  IF most_recent_timetable # None
        THEN Probe(most_recent_timetable, valid_timetables)
        ELSE IF valid_timetables = <<>> THEN NotFound
        ELSE IF d[Popped(valid_timetables)] \in {NoFile, Corrupt} THEN NotFound
        ELSE Probe(d[Popped(valid_timetables)], Front(valid_timetables))

(***************************************************************************)
(* State                                                                   *)
(***************************************************************************)
VARIABLES
    dienstboek,                   \* the source documents, in directory-walk order
    dir_exists,                   \* whether the directory pdf_collection exists
    disk,                         \* pdf_collection/<date>.json, by date
    new_timetable,                \* the file new_timetable
    UPCOMING_TIMETABLE_DATE,
    MOST_RECENT_VALID_TIMETABLE,
    VALID_TIMETABLES,
    today,                        \* the clock's date
    pc, loc, resp,                \* per worker: position, locals, last response
    lookup,                       \* a resolution and lookup applied to the store
    handled,                      \* the request just handled and its response
    calls,                        \* the store after each call of index_trip_sheets
    parse,                        \* the parse of one page: its tokens, row, jobs, errors
    ALL_TIMETABLE_COLLECTIONS,    \* the in-memory table of collections
    table_lock,                   \* the RwLock of the table: its writer and its readers
    shift_bodies                  \* pdf_collection/<date>/<number>.json, by date

storeVars == <<dienstboek, dir_exists, disk>>
sharedVars == <<UPCOMING_TIMETABLE_DATE, MOST_RECENT_VALID_TIMETABLE, VALID_TIMETABLES>>
workerVars == <<pc, loc, resp>>
vars == <<dienstboek, dir_exists, disk, new_timetable, UPCOMING_TIMETABLE_DATE,
          MOST_RECENT_VALID_TIMETABLE, VALID_TIMETABLES, today, pc, loc, resp, lookup,
          handled, calls, parse, ALL_TIMETABLE_COLLECTIONS, table_lock,
          shift_bodies>>
tableVars == <<ALL_TIMETABLE_COLLECTIONS, table_lock>>
pageVars == <<calls, parse>>
serverVars == <<storeVars, new_timetable, sharedVars, today, workerVars, lookup, handled>>

Workers == {1, 2}

IdleLocals ==
    [shift_number |-> <<>>, custom_date |-> NoDate, current_date |-> 0,
     next_timetable_date |-> NoDate, valid_timetables |-> <<>>,
     most_recent_active_timetable |-> NewCollection,
     file_paths |-> <<>>, i |-> 0, existing |-> NoFile, refreshed |-> FALSE]

IdleHandled == [idle |-> TRUE]

IdleLookup == [stage |-> "idle", date |-> 0, id |-> <<>>, resolved |-> None, found |-> None]

\* No page is being parsed.
IdleParse == [stage |-> "idle"]

\* No directory of shift bodies exists.
NoBodies == [x \in Dates |-> NoFile]

\* No thread holds the lock of the table.
Unlocked == [writer |-> 0, readers |-> {}]

(***************************************************************************)
(* Documents of the models                                                 *)
(***************************************************************************)
Doc(path, starting_date, pages) ==
    [path |-> path, starting_date |-> starting_date, pages |-> pages]

\* One page per listed number, in the order N1, N2: "G 1001" and "GM 1002".
PagesListing(ids) ==
    (IF N1 \in ids THEN <<<<Name(<<"G">>, N1)>>>> ELSE <<>>)
    \o (IF N2 \in ids THEN <<<<Name(<<"G", "M">>, N2)>>>> ELSE <<>>)

RECURSIVE DocsFrom(_, _)
DocsFrom(listing, x) ==
    IF x > MaxDate THEN <<>>
    ELSE (IF listing[x] = {} THEN <<>>
          ELSE <<Doc(<<"Dienstboek", x>>, x, PagesListing(listing[x]))>>)
         \o DocsFrom(listing, x + 1)

\* At most one document per date (none where the set is empty), each listing a
\* non-empty set of numbers.
Listings == [Dates -> SUBSET Ids]

(***************************************************************************)
(* SpecResolve: get_valid_timetables and find_shift applied to every store *)
(* that indexing the documents can produce                                 *)
(***************************************************************************)
InitResolve ==
    /\ \E listing \in Listings : dienstboek = DocsFrom(listing, 0)
    /\ dir_exists = TRUE
    /\ disk = LoadPdfAndIndex(dienstboek)
    /\ new_timetable = NoDate
    /\ UPCOMING_TIMETABLE_DATE = NoDate
    /\ MOST_RECENT_VALID_TIMETABLE = NewCollection
    /\ VALID_TIMETABLES = <<>>
    /\ today = 0
    /\ pc = [w \in Workers |-> "idle"]
    /\ loc = [w \in Workers |-> IdleLocals]
    /\ resp = [w \in Workers |-> None]
    /\ lookup = IdleLookup
    /\ handled = IdleHandled
    /\ calls = <<>>
    /\ ALL_TIMETABLE_COLLECTIONS = <<>>
    /\ table_lock = Unlocked
    /\ shift_bodies = NoBodies
    /\ parse = IdleParse

\* resolve(date): get_valid_timetables(Some(date)).
Resolve(date) ==
    /\ lookup.stage = "idle"
    /\ \E order \in Orders(Files(disk)) :
           lookup' = [lookup EXCEPT !.stage = "resolved", !.date = date,
                                    !.resolved = GetValidTimetables(disk, order, date)]
    /\ UNCHANGED <<shift_bodies, tableVars, pageVars, storeVars, new_timetable, sharedVars, today, workerVars, handled>>

\* find_shift(id, active list, Some(most recent)), as get_shift calls it.
Find(id) ==
    /\ lookup.stage = "resolved"
    /\ lookup' = [lookup EXCEPT !.stage = "found", !.id = id,
                     !.found = FindShift(id, lookup.resolved.active,
                                         lookup.resolved.most_recent, disk)]
    /\ UNCHANGED <<shift_bodies, tableVars, pageVars, storeVars, new_timetable, sharedVars, today, workerVars, handled>>

Return ==
    /\ lookup.stage = "found"
    /\ lookup' = IdleLookup
    /\ UNCHANGED <<shift_bodies, tableVars, pageVars, storeVars, new_timetable, sharedVars, today, workerVars, handled>>

NextResolve ==
    \/ \E date \in Dates : Resolve(date)
    \/ \E id \in Ids : Find(id)
    \/ Return

SpecResolve == InitResolve /\ [][NextResolve]_vars

\* The collections on disk that are active for a date.
ActiveOn(date) == {x \in Files(disk) : disk[x].valid_from <= date}
UpcomingOn(date) == {x \in Files(disk) : disk[x].valid_from > date}
\* The active collections that list a number.
Listing(date, id) == {x \in ActiveOn(date) : id \in DOMAIN disk[x].pages}

\* C1: find_shift returns the newest match: when some active collection lists
\* the number, the collection returned is the one with the greatest valid_from
\* among the active collections that list it.
C1_NewestMatch ==
    (lookup.stage = "found" /\ Listing(lookup.date, lookup.id) # {})
    => /\ lookup.found # NotFound
       /\ lookup.found.collection.valid_from = Max(Listing(lookup.date, lookup.id))

\* C2: find_shift returns a result exactly when some active collection lists
\* the number, and the collection returned is an active collection on disk
\* that lists it.
C2_FallbackReachability ==
    lookup.stage = "found"
    => /\ (lookup.found # NotFound) <=> (Listing(lookup.date, lookup.id) # {})
       /\ lookup.found # NotFound
          => /\ lookup.found.collection.valid_from \in Listing(lookup.date, lookup.id)
             /\ lookup.found.collection = disk[lookup.found.collection.valid_from]
             /\ lookup.found.data = lookup.found.collection.pages[lookup.id]

\* C2 witness: the newest active collection does not list the number, an older
\* one does, and the older one's data is returned.
C2_Witness ==
    /\ lookup.stage = "found"
    /\ lookup.found # NotFound
    /\ ActiveOn(lookup.date) # {}
    /\ lookup.id \notin DOMAIN disk[Max(ActiveOn(lookup.date))].pages
    /\ lookup.found.collection.valid_from < Max(ActiveOn(lookup.date))

\* C4: a collection with valid_from = D is in the active list for every lookup
\* date >= D and in the upcoming list for every lookup date < D; every
\* collection on disk is in exactly one of the two lists, once.
C4_ActivationBoundary ==
    lookup.stage = "resolved"
    => /\ Range(lookup.resolved.active) = {disk[x].valid_from : x \in ActiveOn(lookup.date)}
       /\ Range(lookup.resolved.upcoming) = {disk[x].valid_from : x \in UpcomingOn(lookup.date)}
       /\ \A x \in Files(disk) :
              /\ (disk[x].valid_from \in Range(lookup.resolved.active))
                     <=> (disk[x].valid_from <= lookup.date)
              /\ (disk[x].valid_from \in Range(lookup.resolved.upcoming))
                     <=> (disk[x].valid_from > lookup.date)
       /\ Len(lookup.resolved.active) + Len(lookup.resolved.upcoming) = Cardinality(Files(disk))

\* C4 witness: a collection whose valid_from equals the lookup date is active
\* while another collection is upcoming.
C4_Witness ==
    /\ lookup.stage = "resolved"
    /\ lookup.date \in Range(lookup.resolved.active)
    /\ lookup.resolved.upcoming # <<>>

\* C5: the next change date is the least valid_from later than the lookup
\* date, and None exactly when there is none.
C5_NextChangeDate ==
    lookup.stage = "resolved"
    => IF UpcomingOn(lookup.date) = {}
       THEN lookup.resolved.next = NoDate
       ELSE /\ lookup.resolved.next = Min({disk[x].valid_from : x \in UpcomingOn(lookup.date)})
            /\ lookup.resolved.next > lookup.date

\* C5 witness: two collections are upcoming and the earlier one is reported.
C5_Witness ==
    /\ lookup.stage = "resolved"
    /\ Cardinality(UpcomingOn(lookup.date)) >= 2
    /\ lookup.resolved.next = Min(UpcomingOn(lookup.date))

(***************************************************************************)
(* INDEX request: get_valid_shifts                                         *)
(***************************************************************************)
\* The inner loop of get_valid_shifts for one active timetable: a number is
\* (re)inserted unless it is already listed with a later valid_from.
AddAvailable(available_shifts, timetable) ==
    [k \in DOMAIN available_shifts \cup DOMAIN timetable.pages |->
        IF k \notin DOMAIN timetable.pages THEN available_shifts[k]
        ELSE IF k \in DOMAIN available_shifts /\ available_shifts[k] > timetable.valid_from
             THEN available_shifts[k]
             ELSE timetable.valid_from]

RECURSIVE ValidShiftsLoop(_, _, _, _)
ValidShiftsLoop(available_shifts, d, order, current_date) ==
    IF order = <<>> THEN available_shifts
    ELSE ValidShiftsLoop(
             IF d[Head(order)].valid_from <= current_date
             THEN AddAvailable(available_shifts, d[Head(order)])
             ELSE available_shifts,
             d, Tail(order), current_date)

GetValidShifts(d, order, current_date) == ValidShiftsLoop(EmptyMap, d, order, current_date)

(***************************************************************************)
(* The request handler get_shift                                           *)
(***************************************************************************)
REFRESH == <<"R", "E", "F", "R", "E", "S", "H">>
INDEX == <<"I", "N", "D", "E", "X">>
JSON == <<"J", "S", "O", "N">>

\* normalized_shift_number: spaces removed, upper-cased.
Normalized(shift_number) == ToUppercase(RemoveSpaces(shift_number))

\* Mutants of ReloadDue: the caller's date is not looked at; the change date
\* itself does not yet count.
ReloadDueAnyDate(next_timetable_date, current_date, custom_date_option) ==
    /\ next_timetable_date # NoDate
    /\ current_date >= next_timetable_date

ReloadDueLate(next_timetable_date, current_date, custom_date_option) ==
    /\ next_timetable_date # NoDate
    /\ current_date > next_timetable_date
    /\ custom_date_option = NoDate

\* The guard of the permanent reload.
ReloadDue(next_timetable_date, current_date, custom_date_option) ==
    /\ next_timetable_date # NoDate
    /\ current_date >= next_timetable_date
    /\ custom_date_option = NoDate

\* get_valid_timetables writes the file new_timetable only for today's date.
WritesNewTimetable(date) == date = NoDate

\* The prefix check of get_shift.
PrefixRejected(shift_prefix, shift_data) ==
    shift_prefix # <<>> /\ shift_prefix # shift_data.shift_prefix

IsJsonRequest(normalized_shift_number) == LastPart(normalized_shift_number) = JSON

Response(status, content_type, valid_from, data) ==
    [status |-> status, content_type |-> content_type, valid_from |-> valid_from, data |-> data]

\* What get_shift answers once the timetables are settled: find_shift, the
\* prefix check, then the JSON or the PDF branch.
Answer(shift_number, valid_timetables, most_recent_active_timetable, d) ==
    LET shift_prefix == FilterAlphabetic(shift_number)
        numeric_shift_number == FilterNumeric(shift_number)
        found == FindShift(numeric_shift_number, valid_timetables,
                           most_recent_active_timetable, d)
    IN  IF found = NotFound THEN Response("NotFound", "html", NoDate, None)
        ELSE IF PrefixRejected(shift_prefix, found.data)
        THEN Response("NotAcceptable", "html", found.collection.valid_from, found.data)
        ELSE IF IsJsonRequest(Normalized(shift_number))
        THEN Response("Ok", "json", found.collection.valid_from, found.data)
        ELSE IF found.data.file_id \in DOMAIN found.collection.files
        THEN Response("Ok", "pdf", found.collection.valid_from, found.data)
        ELSE Response("InternalServerError", "html", found.collection.valid_from, found.data)

Handled(kind, shift_number, custom_date_option, reloaded, response) ==
    [kind |-> kind, shift_number |-> shift_number, custom_date |-> custom_date_option,
     reloaded |-> reloaded, response |-> response]

\* get_shift for a shift request, run without interruption.
GetShiftLookup(shift_number, custom_date_option) ==
    /\ handled = IdleHandled
    /\ Normalized(shift_number) \notin {REFRESH, INDEX}
    /\ \E order \in Orders(Files(disk)) :
        LET current_date == today
            private == GetValidTimetables(disk, order, CurrentDate(custom_date_option, today))
            reload == ReloadDue(UPCOMING_TIMETABLE_DATE, current_date, custom_date_option)
            fresh == GetValidTimetables(disk, order, CurrentDate(custom_date_option, today))
            valid_timetables ==
                IF reload THEN fresh.active
                ELSE IF custom_date_option # NoDate THEN private.active
                ELSE VALID_TIMETABLES
            most_recent_active_timetable ==
                IF reload THEN fresh.most_recent
                ELSE IF custom_date_option # NoDate THEN private.most_recent
                ELSE MOST_RECENT_VALID_TIMETABLE
        IN  /\ IF reload
               THEN /\ MOST_RECENT_VALID_TIMETABLE' = fresh.most_recent
                    /\ UPCOMING_TIMETABLE_DATE' = fresh.next
                    /\ VALID_TIMETABLES' = fresh.active
               ELSE UNCHANGED sharedVars
            /\ new_timetable' =
                   IF reload /\ WritesNewTimetable(custom_date_option)
                   THEN fresh.next ELSE new_timetable
            /\ handled' = Handled("lookup", shift_number, custom_date_option, reload,
                                  Answer(shift_number, valid_timetables,
                                         most_recent_active_timetable, disk))
    /\ UNCHANGED <<shift_bodies, tableVars, pageVars, storeVars, today, workerVars, lookup>>

\* Mutant of GetShiftRefresh: the shared state is resolved again from the
\* rebuilt collections.
GetShiftRefreshResolving(shift_number, custom_date_option) ==
    /\ handled = IdleHandled
    /\ Normalized(shift_number) = REFRESH
    /\ disk' = LoadPdfAndIndex(dienstboek)
    /\ dir_exists' = TRUE
    /\ \E order \in Orders(Files(disk')) :
           /\ MOST_RECENT_VALID_TIMETABLE' = GetValidTimetables(disk', order, today).most_recent
           /\ UPCOMING_TIMETABLE_DATE' = GetValidTimetables(disk', order, today).next
           /\ VALID_TIMETABLES' = GetValidTimetables(disk', order, today).active
    /\ handled' = Handled("refresh", shift_number, custom_date_option, FALSE,
                          Response("Accepted", "text", NoDate, None))
    /\ UNCHANGED <<shift_bodies, tableVars, pageVars, dienstboek, new_timetable, today, workerVars, lookup>>

\* get_shift for REFRESH: handle_refresh_request, run without interruption.
GetShiftRefresh(shift_number, custom_date_option) ==
    /\ handled = IdleHandled
    /\ Normalized(shift_number) = REFRESH
    /\ disk' = LoadPdfAndIndex(dienstboek)
    /\ dir_exists' = TRUE
    /\ handled' = Handled("refresh", shift_number, custom_date_option, FALSE,
                          Response("Accepted", "text", NoDate, None))
    /\ UNCHANGED <<shift_bodies, tableVars, pageVars, dienstboek, new_timetable, sharedVars, today, workerVars, lookup>>

\* get_shift for INDEX: handle_index_request.
GetShiftIndex(shift_number, custom_date_option) ==
    /\ handled = IdleHandled
    /\ Normalized(shift_number) = INDEX
    /\ \E order \in Orders(Files(disk)) :
           handled' = Handled("index", shift_number, custom_date_option, FALSE,
                          Response("Ok", "text", NoDate,
                              GetValidShifts(disk, order,
                                             CurrentDate(custom_date_option, today))))
    /\ UNCHANGED <<shift_bodies, tableVars, pageVars, storeVars, new_timetable, sharedVars, today, workerVars, lookup>>

\* The response has been sent.
Responded ==
    /\ handled # IdleHandled
    /\ handled' = IdleHandled
    /\ UNCHANGED <<shift_bodies, tableVars, pageVars, storeVars, new_timetable, sharedVars, today, workerVars, lookup>>

\* A day passes.
Tick ==
    /\ handled = IdleHandled
    /\ today < MaxDate
    /\ today' = today + 1
    /\ UNCHANGED <<shift_bodies, tableVars, pageVars, storeVars, new_timetable, sharedVars, workerVars, lookup, handled>>

\* The document sets the directory Dienstboek holds in turn: two generations
\* with a fallback, a collection dated at the placeholder, three generations,
\* and a single generation.
ListingOf(f) == [x \in Dates |-> IF x \in DOMAIN f THEN f[x] ELSE {}]
ServerListings ==
    { ListingOf(1 :> {N1, N2} @@ 3 :> {N1}),
      ListingOf(0 :> {N1} @@ 2 :> {N1, N2}),
      ListingOf(1 :> {N1} @@ 2 :> {N1, N2} @@ 3 :> {N1}),
      ListingOf(2 :> {N1, N2}) }

\* The documents in the directory Dienstboek are replaced.
ReplaceDocuments ==
    /\ handled = IdleHandled
    /\ \E listing \in ServerListings : dienstboek' = DocsFrom(listing, 0)
    /\ UNCHANGED <<shift_bodies, tableVars, pageVars, dir_exists, disk, new_timetable, sharedVars, today, workerVars, lookup,
                   handled>>

ShiftRequests ==
    { <<"G">> \o N1, <<"G", "M">> \o N1, <<"X">> \o N1, N1,
      <<"G">> \o N2,
      <<"g">> \o N1, <<"G">> \o N1 \o <<".", "j", "s", "o", "n">>,
      <<"r", "e", "f", "r", "e", "s", "h">>, INDEX }

\* The state main() leaves: the documents indexed, the shared state set from
\* get_valid_timetables(None).
Init ==
    /\ \E listing \in ServerListings : dienstboek = DocsFrom(listing, 0)
    /\ dir_exists = TRUE
    /\ disk = LoadPdfAndIndex(dienstboek)
    /\ today \in Dates
    /\ \E order \in Orders(Files(disk)) :
        LET current_timetable == GetValidTimetables(disk, order, today)
        IN  /\ MOST_RECENT_VALID_TIMETABLE = current_timetable.most_recent
            /\ UPCOMING_TIMETABLE_DATE = current_timetable.next
            /\ VALID_TIMETABLES = current_timetable.active
            /\ new_timetable = current_timetable.next
    /\ pc = [w \in Workers |-> "idle"]
    /\ loc = [w \in Workers |-> IdleLocals]
    /\ resp = [w \in Workers |-> None]
    /\ lookup = IdleLookup
    /\ handled = IdleHandled
    /\ calls = <<>>
    /\ ALL_TIMETABLE_COLLECTIONS = <<>>
    /\ table_lock = Unlocked
    /\ shift_bodies = NoBodies
    /\ parse = IdleParse

Next ==
    \/ \E shift_number \in ShiftRequests, custom_date_option \in Dates \cup {NoDate} :
           \/ GetShiftLookup(shift_number, custom_date_option)
           \/ GetShiftRefresh(shift_number, custom_date_option)
           \/ GetShiftIndex(shift_number, custom_date_option)
    \/ Responded
    \/ Tick
    \/ ReplaceDocuments

Spec == Init /\ [][Next]_vars

(***************************************************************************)
(* Claims about the request handler                                        *)
(***************************************************************************)
\* The leading letters of a string.
RECURSIVE LeadingLetters(_)
LeadingLetters(s) ==
    IF s = <<>> \/ ~is_alphabetic(Head(s)) THEN <<>>
    ELSE <<Head(s)>> \o LeadingLetters(Tail(s))

\* The set S as a sequence in descending order.
RECURSIVE Descending(_)
Descending(S) == IF S = {} THEN <<>> ELSE <<Max(S)>> \o Descending(S \ {Max(S)})

IsAlias(p, q) == {p, q} = {<<"G", "M">>, <<"G">>}

\* A request has just been handled that is written in upper case, letters
\* first, and found a shift.
PlainLookupAnswered ==
    /\ handled # IdleHandled
    /\ handled.kind = "lookup"
    /\ handled.response.status # "NotFound"
    /\ FilterAlphabetic(handled.shift_number) = LeadingLetters(handled.shift_number)
    /\ Normalized(handled.shift_number) = handled.shift_number

\* C3: after a successful lookup, a request whose non-empty prefix differs
\* from the entry's shift_prefix is rejected as a mismatch unless the two are
\* GM and G in either order; an empty prefix is always accepted.
C3_PrefixCheckWithAlias ==
    PlainLookupAnswered
    => LET prefix == LeadingLetters(handled.shift_number)
           stored == handled.response.data.shift_prefix
           rejected == handled.response.status = "NotAcceptable"
       IN  /\ prefix = <<>> => ~rejected
           /\ prefix = stored => ~rejected
           /\ (prefix # <<>> /\ prefix # stored) => (rejected <=> ~IsAlias(prefix, stored))

\* C6: a request that carries a date leaves UPCOMING_TIMETABLE_DATE,
\* MOST_RECENT_VALID_TIMETABLE, VALID_TIMETABLES and the file new_timetable
\* exactly as they were.
C6_CustomDateLeavesSharedState ==
    [][(handled = IdleHandled /\ handled' # IdleHandled /\ handled'.custom_date # NoDate)
       => UNCHANGED <<sharedVars, new_timetable>>]_vars

\* C6 witness: a lookup with a date has been served while the clock had
\* already reached the stored upcoming change date.
C6_Witness ==
    /\ handled # IdleHandled
    /\ handled.kind = "lookup"
    /\ handled.custom_date # NoDate
    /\ handled.response.status = "Ok"
    /\ UPCOMING_TIMETABLE_DATE # NoDate
    /\ today >= UPCOMING_TIMETABLE_DATE

\* resolve(date) stated from the collections on disk.
ResolutionOn(date) ==
    [active |-> Descending({disk[x].valid_from : x \in ActiveOn(date)}),
     most_recent |-> IF \E x \in ActiveOn(date) : disk[x].valid_from > PlaceholderDate
                     THEN disk[Max(ActiveOn(date))]
                     ELSE NewCollection,
     next |-> IF UpcomingOn(date) = {} THEN NoDate
              ELSE Min({disk[x].valid_from : x \in UpcomingOn(date)})]

Start(w, shift_number, custom_date_option) ==
    /\ pc[w] = "idle"
    /\ Normalized(shift_number) \notin {REFRESH, INDEX}
    /\ loc' = [loc EXCEPT ![w] = [IdleLocals EXCEPT !.shift_number = shift_number,
                                                    !.custom_date = custom_date_option,
                                                    !.current_date = today]]
    /\ pc' = [pc EXCEPT ![w] = "read_upcoming"]
    /\ UNCHANGED <<shift_bodies, tableVars, pageVars, storeVars, new_timetable, sharedVars, today, resp, lookup, handled>>

\* Line 304: UPCOMING_TIMETABLE_DATE.read()
ReadUpcoming(w) ==
    /\ pc[w] = "read_upcoming"
    /\ loc' = [loc EXCEPT ![w].next_timetable_date = UPCOMING_TIMETABLE_DATE]
    /\ pc' = [pc EXCEPT ![w] = "read_valid"]
    /\ UNCHANGED <<shift_bodies, tableVars, pageVars, storeVars, new_timetable, sharedVars, today, resp, lookup, handled>>

\* Line 305: VALID_TIMETABLES.read()
ReadValid(w) ==
    /\ pc[w] = "read_valid"
    /\ loc' = [loc EXCEPT ![w].valid_timetables = VALID_TIMETABLES]
    /\ pc' = [pc EXCEPT ![w] = "read_recent"]
    /\ UNCHANGED <<shift_bodies, tableVars, pageVars, storeVars, new_timetable, sharedVars, today, resp, lookup, handled>>

\* Line 306: MOST_RECENT_VALID_TIMETABLE.read()
ReadRecent(w) ==
    /\ pc[w] = "read_recent"
    /\ loc' = [loc EXCEPT ![w].most_recent_active_timetable = MOST_RECENT_VALID_TIMETABLE]
    /\ pc' = [pc EXCEPT ![w] = "settle"]
    /\ UNCHANGED <<shift_bodies, tableVars, pageVars, storeVars, new_timetable, sharedVars, today, resp, lookup, handled>>

\* Lines 320-335: the private resolution for a caller's date, and the
\* resolution of a due reload.
Settle(w) ==
    /\ pc[w] = "settle"
    /\ \E order \in Orders(Files(disk)) :
        LET l == loc[w]
            reload == ReloadDue(l.next_timetable_date, l.current_date, l.custom_date)
            resolved == GetValidTimetables(disk, order, CurrentDate(l.custom_date, today))
        IN  /\ loc' = [loc EXCEPT ![w] =
                   IF reload
                   THEN [l EXCEPT !.valid_timetables = resolved.active,
                                  !.most_recent_active_timetable = resolved.most_recent,
                                  !.next_timetable_date = resolved.next,
                                  !.refreshed = TRUE]
                   ELSE IF l.custom_date # NoDate
                   THEN [l EXCEPT !.valid_timetables = resolved.active,
                                  !.most_recent_active_timetable = resolved.most_recent]
                   ELSE l]
            /\ new_timetable' =
                   IF reload /\ WritesNewTimetable(l.custom_date)
                   THEN resolved.next ELSE new_timetable
            /\ pc' = [pc EXCEPT ![w] = IF reload THEN "write_recent" ELSE "answer"]
    /\ UNCHANGED <<shift_bodies, tableVars, pageVars, storeVars, sharedVars, today, resp, lookup, handled>>

\* Line 336
WriteRecent(w) ==
    /\ pc[w] = "write_recent"
    /\ MOST_RECENT_VALID_TIMETABLE' = loc[w].most_recent_active_timetable
    /\ pc' = [pc EXCEPT ![w] = "write_upcoming"]
    /\ UNCHANGED <<shift_bodies, tableVars, pageVars, storeVars, new_timetable, UPCOMING_TIMETABLE_DATE, VALID_TIMETABLES,
                   today, loc, resp, lookup, handled>>

\* Line 337
WriteUpcoming(w) ==
    /\ pc[w] = "write_upcoming"
    /\ UPCOMING_TIMETABLE_DATE' = loc[w].next_timetable_date
    /\ pc' = [pc EXCEPT ![w] = "write_valid"]
    /\ UNCHANGED <<shift_bodies, tableVars, pageVars, storeVars, new_timetable, MOST_RECENT_VALID_TIMETABLE, VALID_TIMETABLES,
                   today, loc, resp, lookup, handled>>

\* Line 338
WriteValid(w) ==
    /\ pc[w] = "write_valid"
    /\ VALID_TIMETABLES' = loc[w].valid_timetables
    /\ pc' = [pc EXCEPT ![w] = "answer"]
    /\ UNCHANGED <<shift_bodies, tableVars, pageVars, storeVars, new_timetable, MOST_RECENT_VALID_TIMETABLE,
                   UPCOMING_TIMETABLE_DATE, today, loc, resp, lookup, handled>>

\* Lines 348-386: find_shift, the prefix check and the response.
AnswerShift(w) ==
    /\ pc[w] = "answer"
    /\ resp' = [resp EXCEPT ![w] = Answer(loc[w].shift_number, loc[w].valid_timetables,
                                          loc[w].most_recent_active_timetable, disk)]
    /\ pc' = [pc EXCEPT ![w] = "responded"]
    /\ UNCHANGED <<shift_bodies, tableVars, pageVars, storeVars, new_timetable, sharedVars, today, loc, lookup, handled>>

\* The response has been sent; the worker takes the next request.
Finish(w) ==
    /\ pc[w] = "responded"
    /\ pc' = [pc EXCEPT ![w] = "idle"]
    /\ loc' = [loc EXCEPT ![w] = IdleLocals]
    /\ resp' = [resp EXCEPT ![w] = None]
    /\ UNCHANGED <<shift_bodies, tableVars, pageVars, storeVars, new_timetable, sharedVars, today, lookup, handled>>

\* A day passes while requests are in progress.
Midnight ==
    /\ today < MaxDate
    /\ today' = today + 1
    /\ UNCHANGED <<shift_bodies, tableVars, pageVars, storeVars, new_timetable, sharedVars, workerVars, lookup, handled>>

\* The requests the two workers take: one shift, without a date or with the
\* last date.
ConcurrentRequests == {<<"G">> \o N1}
ConcurrentDates == {NoDate, MaxDate}

NextConcurrent ==
    \/ \E w \in Workers :
        \/ \E shift_number \in ConcurrentRequests, custom_date_option \in ConcurrentDates :
               Start(w, shift_number, custom_date_option)
        \/ ReadUpcoming(w)
        \/ ReadValid(w)
        \/ ReadRecent(w)
        \/ Settle(w)
        \/ WriteRecent(w)
        \/ WriteUpcoming(w)
        \/ WriteValid(w)
        \/ AnswerShift(w)
        \/ Finish(w)
    \/ Midnight

SpecConcurrent == Init /\ [][NextConcurrent]_vars

\* C7: every lookup reads an (active list, most recent collection, upcoming
\* change date) triple that one single resolution produced.
C7_SnapshotFromOneResolution ==
    \A w \in Workers :
        pc[w] = "settle"
        => \E date \in Dates :
               /\ loc[w].valid_timetables = ResolutionOn(date).active
               /\ loc[w].most_recent_active_timetable = ResolutionOn(date).most_recent
               /\ loc[w].next_timetable_date = ResolutionOn(date).next

(***************************************************************************)
(* SpecIndex: REFRESH requests on two worker threads, each directory and   *)
(* file operation of load_pdf_and_index a step of its own                  *)
(***************************************************************************)
\* Lines 274-286: the directory Dienstboek is walked.
RefreshStart(w) ==
    /\ pc[w] = "idle"
    /\ loc' = [loc EXCEPT ![w] = [IdleLocals EXCEPT !.file_paths = dienstboek]]
    /\ pc' = [pc EXCEPT ![w] = "remove_dir"]
    /\ UNCHANGED <<shift_bodies, tableVars, pageVars, storeVars, new_timetable, sharedVars, today, resp, lookup, handled>>

\* Line 432: fs::remove_dir_all(COLLECTION_PATH)
RemoveDir(w) ==
    /\ pc[w] = "remove_dir"
    /\ disk' = EmptyDisk
    /\ dir_exists' = FALSE
    /\ pc' = [pc EXCEPT ![w] = "create_dir"]
    /\ UNCHANGED <<shift_bodies, tableVars, pageVars, dienstboek, new_timetable, sharedVars, today, loc, resp, lookup, handled>>

\* Line 433: fs::create_dir(COLLECTION_PATH)
CreateDir(w) ==
    /\ pc[w] = "create_dir"
    /\ dir_exists' = TRUE
    /\ loc' = [loc EXCEPT ![w].i = 1]
    /\ pc' = [pc EXCEPT ![w] = IF loc[w].file_paths = <<>> THEN "refresh_done"
                                ELSE "index_read"]
    /\ UNCHANGED <<shift_bodies, tableVars, pageVars, dienstboek, disk, new_timetable, sharedVars, today, resp, lookup, handled>>

\* index_trip_sheets, lines 81-128: the document is parsed, its shifts are
\* saved beneath the dated directory, the collection file is read.  Without
\* the directory pdf_collection the save fails and the unwrap panics.
IndexRead(w) ==
    /\ pc[w] = "index_read"
    /\ IF dir_exists
       THEN /\ loc' = [loc EXCEPT ![w].existing =
                           disk[loc[w].file_paths[loc[w].i].starting_date]]
            /\ pc' = [pc EXCEPT ![w] = "index_write"]
       ELSE /\ pc' = [pc EXCEPT ![w] = "panicked"]
            /\ loc' = loc
    /\ UNCHANGED <<shift_bodies, tableVars, pageVars, storeVars, new_timetable, sharedVars, today, resp, lookup, handled>>

\* index_trip_sheets, lines 129-147: the collection is extended or created
\* and written.  Without the directory the write fails and the unwrap panics.
IndexWrite(w) ==
    /\ pc[w] = "index_write"
    /\ IF dir_exists
       THEN /\ disk' = [disk EXCEPT ![loc[w].file_paths[loc[w].i].starting_date] =
                           MergeCollection(loc[w].existing, loc[w].file_paths[loc[w].i],
                                           loc[w].i - 1)]
            /\ pc' = [pc EXCEPT ![w] = "index_loop"]
       ELSE /\ pc' = [pc EXCEPT ![w] = "panicked"]
            /\ disk' = disk
    /\ UNCHANGED <<shift_bodies, tableVars, pageVars, dienstboek, dir_exists, new_timetable, sharedVars, today, loc, resp,
                   lookup, handled>>

\* Lines 434-438: the next document, or the end of the run.
IndexLoop(w) ==
    /\ pc[w] = "index_loop"
    /\ loc' = [loc EXCEPT ![w].i = @ + 1]
    /\ pc' = [pc EXCEPT ![w] = IF loc[w].i < Len(loc[w].file_paths) THEN "index_read"
                                ELSE "refresh_done"]
    /\ UNCHANGED <<shift_bodies, tableVars, pageVars, storeVars, new_timetable, sharedVars, today, resp, lookup, handled>>

\* Line 287: the response of handle_refresh_request.
RefreshDone(w) ==
    /\ pc[w] = "refresh_done"
    /\ resp' = [resp EXCEPT ![w] = Response("Accepted", "text", NoDate, None)]
    /\ pc' = [pc EXCEPT ![w] = "done"]
    /\ UNCHANGED <<shift_bodies, tableVars, pageVars, storeVars, new_timetable, sharedVars, today, loc, lookup, handled>>

\* Documents that share dates and numbers.
DocA == Doc(<<"Dienstboek", "a">>, 1, <<<<Name(<<"G">>, N1)>>, <<Name(<<"G", "M">>, N2)>>>>)
DocB == Doc(<<"Dienstboek", "b">>, 1, <<<<Name(<<"M">>, N1)>>>>)
DocC == Doc(<<"Dienstboek", "c">>, 2, <<<<Name(<<"G">>, N1)>>>>)
DocPool == {DocA, DocB, DocC}

\* The directory walk yields two or more of the documents, in any order.
IndexLists == UNION {Orders(S) : S \in {T \in SUBSET DocPool : Cardinality(T) >= 2}}

\* The state main() leaves on day 0.
InitIndex ==
    /\ dienstboek \in IndexLists
    /\ dir_exists = TRUE
    /\ disk = LoadPdfAndIndex(dienstboek)
    /\ today = 0
    /\ \E order \in Orders(Files(disk)) :
        LET current_timetable == GetValidTimetables(disk, order, today)
        IN  /\ MOST_RECENT_VALID_TIMETABLE = current_timetable.most_recent
            /\ UPCOMING_TIMETABLE_DATE = current_timetable.next
            /\ VALID_TIMETABLES = current_timetable.active
            /\ new_timetable = current_timetable.next
    /\ pc = [w \in Workers |-> "idle"]
    /\ loc = [w \in Workers |-> IdleLocals]
    /\ resp = [w \in Workers |-> None]
    /\ lookup = IdleLookup
    /\ handled = IdleHandled
    /\ calls = <<>>
    /\ ALL_TIMETABLE_COLLECTIONS = <<>>
    /\ table_lock = Unlocked
    /\ shift_bodies = NoBodies
    /\ parse = IdleParse

NextIndex ==
    \E w \in Workers :
        \/ RefreshStart(w)
        \/ RemoveDir(w)
        \/ CreateDir(w)
        \/ IndexRead(w)
        \/ IndexWrite(w)
        \/ IndexLoop(w)
        \/ RefreshDone(w)

SpecIndex == InitIndex /\ [][NextIndex]_vars

\* The numbers a document lists.
DocKeys(doc) ==
    UNION {{FilterNumeric(doc.pages[p][c]) : c \in 1..Len(doc.pages[p])} :
           p \in 1..Len(doc.pages)}
\* The pages of a document that list a number.
DocPagesOf(doc, k) ==
    {p \in 1..Len(doc.pages) : \E c \in 1..Len(doc.pages[p]) : FilterNumeric(doc.pages[p][c]) = k}

\* C9: when the indexing runs have ended, the collection of each document's
\* date holds the files entry and the pages entries of that document.
C9_NoLostUpdate ==
    (/\ \A w \in Workers : pc[w] \in {"idle", "done"}
     /\ \E w \in Workers : pc[w] = "done")
    => \A i \in 1..Len(dienstboek) :
           LET doc == dienstboek[i]
               collection == disk[doc.starting_date]
           IN  /\ collection # NoFile
               /\ (i - 1) \in DOMAIN collection.files
               /\ collection.files[i - 1] = doc.path
               /\ DocKeys(doc) \subseteq DOMAIN collection.pages

\* C10: indexing a further document into an existing collection keeps every
\* files key and pages key, adds the document's keys, leaves valid_from
\* unchanged, and on a pages-key collision stores the later document's entry.
C10_MergeIsKeyUnion ==
    [][\A w \in Workers :
        (pc[w] = "index_write" /\ pc'[w] = "index_loop" /\ loc[w].existing # NoFile)
        => LET doc == loc[w].file_paths[loc[w].i]
               file_id == loc[w].i - 1
               old == loc[w].existing
               new == disk'[doc.starting_date]
           IN  /\ new.valid_from = old.valid_from
               /\ old.valid_from = doc.starting_date
               /\ DOMAIN new.files = DOMAIN old.files \cup {file_id}
               /\ new.files[file_id] = doc.path
               /\ \A k \in DOMAIN old.files \ {file_id} : new.files[k] = old.files[k]
               /\ DOMAIN new.pages = DOMAIN old.pages \cup DocKeys(doc)
               /\ \A k \in DOMAIN old.pages \ DocKeys(doc) : new.pages[k] = old.pages[k]
               /\ \A k \in DocKeys(doc) :
                      /\ new.pages[k].file_id = file_id
                      /\ Range(new.pages[k].pages) = DocPagesOf(doc, k)]_vars

\* C10 witness: a document has just been merged into a collection that
\* already listed one of its numbers for another file.
C10_Witness ==
    \E w \in Workers :
        /\ pc[w] = "index_loop"
        /\ loc[w].existing # NoFile
        /\ LET doc == loc[w].file_paths[loc[w].i]
               file_id == loc[w].i - 1
           IN  \E k \in DocKeys(doc) \cap DOMAIN loc[w].existing.pages :
                   /\ loc[w].existing.pages[k].file_id # file_id
                   /\ disk[doc.starting_date] # NoFile
                   /\ k \in DOMAIN disk[doc.starting_date].pages
                   /\ disk[doc.starting_date].pages[k].file_id = file_id

(***************************************************************************)
(* SpecReindex: index_trip_sheets called repeatedly on an empty store      *)
(***************************************************************************)
\* The number of calls of index_trip_sheets in one behaviour.
MaxCalls == 3

\* Page listings: one shift; two shifts; one shift on two pages; two names
\* with the same number on one page and on two pages; a page without a
\* capture.
ReindexPages ==
    { <<<<Name(<<"G">>, N1)>>>>,
      <<<<Name(<<"G">>, N1)>>, <<Name(<<"G", "M">>, N2)>>>>,
      <<<<Name(<<"G">>, N1)>>, <<Name(<<"G">>, N1)>>>>,
      <<<<Name(<<"G">>, N1), Name(<<"M">>, N1)>>>>,
      <<<<Name(<<"M">>, N1)>>, <<Name(<<"G">>, N1)>>>>,
      <<<<>>, <<Name(<<"G", "M">>, N2)>>>> }

ReindexDocs ==
    {Doc(<<"Dienstboek", "a">>, starting_date, pages) :
        starting_date \in {0, 1}, pages \in ReindexPages}

FileIds == {0, 1}

InitReindex ==
    /\ dienstboek = <<>>
    /\ dir_exists = TRUE
    /\ disk = EmptyDisk
    /\ new_timetable = NoDate
    /\ UPCOMING_TIMETABLE_DATE = NoDate
    /\ MOST_RECENT_VALID_TIMETABLE = NewCollection
    /\ VALID_TIMETABLES = <<>>
    /\ today = 0
    /\ pc = [w \in Workers |-> "idle"]
    /\ loc = [w \in Workers |-> IdleLocals]
    /\ resp = [w \in Workers |-> None]
    /\ lookup = IdleLookup
    /\ handled = IdleHandled
    /\ calls = <<>>
    /\ ALL_TIMETABLE_COLLECTIONS = <<>>
    /\ table_lock = Unlocked
    /\ shift_bodies = NoBodies
    /\ parse = IdleParse

\* index_trip_sheets(pdf_path, file_id), run without interruption.
IndexCall(doc, file_id) ==
    /\ Len(calls) < MaxCalls
    /\ disk' = IndexTripSheets(disk, doc, file_id)
    /\ calls' = Append(calls, [doc |-> doc, file_id |-> file_id, store |-> disk'])
    /\ UNCHANGED <<shift_bodies, tableVars, dienstboek, dir_exists, new_timetable, sharedVars, today,
                   workerVars, lookup, handled, parse>>

NextReindex == \E doc \in ReindexDocs, file_id \in FileIds : IndexCall(doc, file_id)

SpecReindex == InitReindex /\ [][NextReindex]_vars

\* C11: when the first two calls on the empty store index the same document
\* with the same file id, the collection after the second call has the files
\* map and the pages map it had after the first.
C11_MergeIdempotence ==
    (/\ Len(calls) >= 2
     /\ calls[1].doc = calls[2].doc
     /\ calls[1].file_id = calls[2].file_id)
    => LET date == calls[1].doc.starting_date
       IN  /\ calls[1].store[date] # NoFile
           /\ calls[2].store[date] # NoFile
           /\ calls[2].store[date].files = calls[1].store[date].files
           /\ calls[2].store[date].pages = calls[1].store[date].pages
           /\ calls[2].store = calls[1].store

\* C11 witness: a document with a shift on two pages has been indexed twice
\* with the same file id.
C11_Witness ==
    /\ Len(calls) >= 2
    /\ calls[1].doc = calls[2].doc
    /\ calls[1].file_id = calls[2].file_id
    /\ LET date == calls[1].doc.starting_date
       IN  /\ calls[2].store[date] # NoFile
           /\ \E k \in DOMAIN calls[2].store[date].pages :
                  Len(calls[2].store[date].pages[k].pages) = 2

(***************************************************************************)
(* Page parser: texts                                                      *)
(***************************************************************************)
\* Option::Some
Some(v) == [some |-> v]

\* Result::Ok(()) and the three variants of ShiftParseError.
Ok == [ok |-> TRUE]
OptionError(function, parsing_job, line) ==
    [error |-> "Option", function |-> function, parsing_job |-> parsing_job, line |-> line]
GenericShiftError(page_number, line) ==
    [error |-> "GenericShiftError", page_number |-> page_number, line |-> line]
MetadataFailure(page_number) ==
    [error |-> "MetadataFailure", page_number |-> page_number, line |-> None]

DigitSeq == <<"0", "1", "2", "3", "4", "5", "6", "7", "8", "9">>
DigitValue(c) == (CHOOSE i \in 1..10 : DigitSeq[i] = c) - 1

RECURSIVE DecimalValue(_)
DecimalValue(s) ==
    IF s = <<>> THEN 0 ELSE 10 * DecimalValue(Front(s)) + DigitValue(s[Len(s)])

\* Leading zeros removed, one digit kept.
RECURSIVE StripZeros(_)
StripZeros(d) == IF Len(d) > 1 /\ Head(d) = "0" THEN StripZeros(Tail(d)) ELSE d

\* a <= b for decimal numerals without leading zeros.
RECURSIVE LeqDecimal(_, _)
LeqDecimal(a, b) ==
    IF Len(a) # Len(b) THEN Len(a) < Len(b)
    ELSE IF a = <<>> THEN TRUE
    ELSE IF Head(a) # Head(b) THEN DigitValue(Head(a)) < DigitValue(Head(b))
    ELSE LeqDecimal(Tail(a), Tail(b))

\* The greatest values of u8, u32 and usize (64 bit), as numerals.
U8Max == <<"2", "5", "5">>
U32Max == <<"4", "2", "9", "4", "9", "6", "7", "2", "9", "5">>
UsizeMax == <<"1", "8", "4", "4", "6", "7", "4", "4", "0", "7", "3", "7", "0", "9", "5", "5", "1", "6", "1", "5">>

\* str::parse for an unsigned integer type with the greatest value max: an
\* optional "+", then one or more digits, the value at most max.  Some of the
\* value's numeral, or None.
ParseUnsigned(s, max) ==
    LET digits == IF s # <<>> /\ Head(s) = "+" THEN Tail(s) ELSE s
    IN  IF digits # <<>> /\ (\A i \in 1..Len(digits) : digits[i] \in Digits)
           /\ LeqDecimal(StripZeros(digits), max)
        THEN Some(StripZeros(digits))
        ELSE None

\* str::split(sep) for a one-character separator: the sequence of parts.
RECURSIVE Split(_, _)
Split(s, sep) ==
    IF \A i \in 1..Len(s) : s[i] # sep THEN <<s>>
    ELSE LET i == CHOOSE j \in 1..Len(s) : s[j] = sep /\ \A k \in 1..(j - 1) : s[k] # sep
         IN  <<SubSeq(s, 1, i - 1)>> \o Split(SubSeq(s, i + 1, Len(s)), sep)

\* The literals the classifiers compare with.
Pauze == <<"P", "a", "u", "z", "e">>

(***************************************************************************)
(* Page parser: job_creator                                                *)
(***************************************************************************)
\* Time::from_hms(hour, minute, 0).ok()
FromHms(hour, minute) ==
    IF hour < 24 /\ minute < 60 THEN Some([hour |-> hour, minute |-> minute]) ELSE None

\* Mutant of to_iso8601: 24 is not subtracted from the hour.
to_iso8601_no_rollover(time_string, job_name) ==
    LET time_split == Split(time_string, ":")
        hour_parse == ParseUnsigned(time_split[1], U8Max)
        minute_parse == IF Len(time_split) >= 2 THEN ParseUnsigned(time_split[2], U8Max)
                        ELSE None
    IN  IF hour_parse = None THEN GenericShiftError(1, Some(time_string))
        ELSE IF Len(time_split) < 2
             THEN OptionError("Time minute", Some(job_name), Some(time_string))
        ELSE IF minute_parse = None THEN GenericShiftError(2, Some(time_string))
        ELSE [ok |-> FromHms(DecimalValue(hour_parse.some),
                             DecimalValue(minute_parse.some))]

\* Mutant of to_iso8601: a clock value Time::from_hms rejects is an error.
to_iso8601_range_error(time_string, job_name) ==
    LET time_split == Split(time_string, ":")
        hour_parse == ParseUnsigned(time_split[1], U8Max)
        minute_parse == IF Len(time_split) >= 2 THEN ParseUnsigned(time_split[2], U8Max)
                        ELSE None
    IN  IF hour_parse = None THEN GenericShiftError(1, Some(time_string))
        ELSE IF Len(time_split) < 2
             THEN OptionError("Time minute", Some(job_name), Some(time_string))
        ELSE IF minute_parse = None THEN GenericShiftError(2, Some(time_string))
        ELSE LET hour_noniso == DecimalValue(hour_parse.some)
                 minute == DecimalValue(minute_parse.some)
                 hour_iso == IF hour_noniso >= 24 THEN hour_noniso - 24 ELSE hour_noniso
             IN  IF FromHms(hour_iso, minute) = None
                 THEN GenericShiftError(3, Some(time_string))
                 ELSE [ok |-> FromHms(hour_iso, minute)]

\* to_iso8601: Ok(Option<Time>) as [ok |-> the option], or the error.
to_iso8601(time_string, job_name) ==
    LET time_split == Split(time_string, ":")
        hour_parse == ParseUnsigned(time_split[1], U8Max)
        minute_parse == IF Len(time_split) >= 2 THEN ParseUnsigned(time_split[2], U8Max)
                        ELSE None
    IN  IF hour_parse = None THEN GenericShiftError(1, Some(time_string))
        ELSE IF Len(time_split) < 2
             THEN OptionError("Time minute", Some(job_name), Some(time_string))
        ELSE IF minute_parse = None THEN GenericShiftError(2, Some(time_string))
        ELSE LET hour_noniso == DecimalValue(hour_parse.some)
                 minute == DecimalValue(minute_parse.some)
                 hour_iso == IF hour_noniso >= 24 THEN hour_noniso - 24 ELSE hour_noniso
             IN  [ok |-> FromHms(hour_iso, minute)]

\* str::split_whitespace().next(): the first word, <<>> when there is none.
RECURSIVE FirstWord(_)
FirstWord(s) ==
    IF s = <<>> THEN <<>>
    ELSE IF Head(s) = " " THEN FirstWord(Tail(s))
    ELSE LET rest == Tail(s)
         IN  IF rest = <<>> \/ Head(rest) = " " THEN <<Head(s)>>
             ELSE <<Head(s)>> \o FirstWord(rest)

AlphabetUpper == <<"A", "B", "C", "D", "E", "F", "G", "H", "I", "J", "K", "L", "M", "N", "O", "P", "Q", "R", "S", "T", "U", "V", "W", "X", "Y", "Z">>
AlphabetLower == <<"a", "b", "c", "d", "e", "f", "g", "h", "i", "j", "k", "l", "m", "n", "o", "p", "q", "r", "s", "t", "u", "v", "w", "x", "y", "z">>
to_lowercase(c) ==
    IF \E i \in 1..26 : AlphabetUpper[i] = c
    THEN AlphabetLower[CHOOSE i \in 1..26 : AlphabetUpper[i] = c]
    ELSE c
ToLowercase(s) == [i \in 1..Len(s) |-> to_lowercase(s[i])]

StartsWith(s, pat) == Len(s) >= Len(pat) /\ SubSeq(s, 1, Len(pat)) = pat

\* str::replace(pat, ""): every occurrence of pat removed, left to right.
RECURSIVE Remove(_, _)
Remove(s, pat) ==
    IF s = <<>> THEN <<>>
    ELSE IF StartsWith(s, pat) THEN Remove(SubSeq(s, Len(pat) + 1, Len(s)), pat)
    ELSE <<Head(s)>> \o Remove(Tail(s), pat)

\* message_type_finder: Some(message) or None.
message_type_finder(lijn_string) ==
    LET lijn_first_word == ToLowercase(FirstWord(lijn_string))
    IN  IF FirstWord(lijn_string) = <<>> THEN None
        ELSE IF lijn_first_word = <<"n", "e", "e", "m">>
             THEN Some([message |-> "NeemBus",
                        bustype |-> Remove(lijn_string, <<"n", "e", "e", "m", " ">>)])
        ELSE IF lijn_first_word = <<"b", "u", "s">>
             THEN LET lijn == ParseUnsigned(Remove(lijn_string, <<"B", "u", "s", " ", "o", "p", " ", "l", "i", "j", "n", " ">>),
                                            U32Max)
                  IN  IF lijn = None THEN None
                      ELSE Some([message |-> "BusOp", lijn |-> lijn.some])
        ELSE IF lijn_first_word = <<"p", "o", "d">>
             THEN Some([message |-> "NeemBus", bustype |-> lijn_string])
        ELSE IF lijn_first_word = <<"p", "a", "s", "s">>
             THEN LET lijn_string_split == Remove(lijn_string, <<"P", "a", "s", "s", " ", "m", "e", "t", " ">>)
                      word == FirstWord(lijn_string_split)
                      dienst_omloop_split == Split(word, "/")
                      dienstnummer == ParseUnsigned(dienst_omloop_split[1], U32Max)
                  IN  IF word = <<>> \/ dienstnummer = None \/ Len(dienst_omloop_split) < 2
                      THEN None
                      ELSE Some([message |-> "Passagieren",
                                 dienstnummer |-> dienstnummer.some,
                                 omloop |-> dienst_omloop_split[2]])
        ELSE Some([message |-> "Other", text |-> lijn_string])

\* The job type the line/duty column gives.
LijnJobType(lijn_string) ==
    IF lijn_string = <<"M", "A", "T">> THEN [type |-> "Rijden", drive_type |-> [drive |-> "Mat"]]
    ELSE IF lijn_string = Pauze THEN [type |-> "Pauze"]
    ELSE IF ParseUnsigned(lijn_string, U32Max) # None
         THEN [type |-> "Rijden",
               drive_type |-> [drive |-> "Lijn",
                               lijn |-> ParseUnsigned(lijn_string, U32Max).some]]
    ELSE IF lijn_string = <<"O", "p", "/", "A", "f", "s", "t", "a", "p", "t", "i", "j", "d">>
         THEN [type |-> "OpAfstap"]
    ELSE [type |-> "Melding",
          message |-> IF message_type_finder(lijn_string) # None
                      THEN message_type_finder(lijn_string).some
                      ELSE [message |-> "Other", text |-> lijn_string]]

Unknown == [type |-> "Unknown"]

\* Lines 377-382: the job type a literal of the cycle column gives, or None.
OmloopJobType(omloop_string) ==
    IF omloop_string = <<"O", "n", "d", "e", "r", "b", "r", "e", "k", "i", "n", "g">>
    THEN Some([type |-> "Onderbreking"])
    ELSE IF omloop_string = <<"L", "o", "o", "p", "/", "R", "e", "i", "s">>
    THEN Some([type |-> "LoopReis"])
    ELSE IF omloop_string = <<"R", "i", "j", "k", "l", "a", "a", "r", " ", "m", "a", "k", "e", "n">>
    THEN Some([type |-> "RijklaarMaken"])
    ELSE IF omloop_string = <<"B", "u", "s", " ", "s", "t", "a", "l", "l", "e", "n", "/", "a", "f", "m">>
    THEN Some([type |-> "StallenAfmelden"])
    ELSE IF omloop_string = <<"R", "e", "s", "e", "r", "v", "e">>
    THEN Some([type |-> "Reserve"])
    ELSE None

\* Mutant of job_creator: the line/duty column, when present, decides the
\* job type after the cycle column.
job_creator_lijn_last(lijn, omloop, rit, start, eind, van, naar) ==
    LET rit_number == IF rit # None THEN ParseUnsigned(rit.some, UsizeMax) ELSE None
        start_time == IF start # None THEN to_iso8601(start.some, "Start time")
                      ELSE [ok |-> None]
        end_time == IF eind # None THEN to_iso8601(eind.some, "End time")
                    ELSE [ok |-> None]
        job_type == IF lijn # None THEN LijnJobType(lijn.some)
                    ELSE IF omloop # None /\ OmloopJobType(omloop.some) # None
                    THEN OmloopJobType(omloop.some).some
                    ELSE Unknown
        omloop_number == IF omloop # None /\ OmloopJobType(omloop.some) = None
                         THEN ParseUnsigned(omloop.some, UsizeMax)
                         ELSE None
    IN  IF "error" \in DOMAIN start_time THEN start_time
        ELSE IF "error" \in DOMAIN end_time THEN end_time
        ELSE [ok |-> [job_type |-> job_type,
                      start |-> start_time.ok,
                      end |-> end_time.ok,
                      start_location |-> van,
                      end_location |-> naar,
                      omloop |-> omloop_number,
                      rit |-> rit_number]]

\* job_creator: the ShiftJob as [ok |-> job], or the error of a time column.
job_creator(lijn, omloop, rit, start, eind, van, naar) ==
    LET job_type1 == IF lijn # None THEN LijnJobType(lijn.some) ELSE Unknown
        rit_number == IF rit # None THEN ParseUnsigned(rit.some, UsizeMax) ELSE None
        start_time == IF start # None THEN to_iso8601(start.some, "Start time")
                      ELSE [ok |-> None]
        end_time == IF eind # None THEN to_iso8601(eind.some, "End time")
                    ELSE [ok |-> None]
        job_type == IF omloop # None /\ OmloopJobType(omloop.some) # None
                    THEN OmloopJobType(omloop.some).some
                    ELSE job_type1
        omloop_number == IF omloop # None /\ OmloopJobType(omloop.some) = None
                         THEN ParseUnsigned(omloop.some, UsizeMax)
                         ELSE None
    IN  IF "error" \in DOMAIN start_time THEN start_time
        ELSE IF "error" \in DOMAIN end_time THEN end_time
        ELSE [ok |-> [job_type |-> job_type,
                      start |-> start_time.ok,
                      end |-> end_time.ok,
                      start_location |-> van,
                      end_location |-> naar,
                      omloop |-> omloop_number,
                      rit |-> rit_number]]

\* ShiftJob::empty
empty(job) ==
    /\ job.job_type = Unknown
    /\ job.start = None
    /\ job.end = None
    /\ job.start_location = None
    /\ job.end_location = None

(***************************************************************************)
(* Page parser: identify_metadata                                          *)
(***************************************************************************)
\* str::contains
Contains(s, pat) == \E i \in 0..(Len(s) - Len(pat)) : SubSeq(s, i + 1, i + Len(pat)) = pat

\* s.split(pat).last(): the text after the last occurrence of pat.
RECURSIVE AfterLast(_, _)
AfterLast(s, pat) ==
    IF ~Contains(s, pat) THEN s
    ELSE LET i == CHOOSE j \in 0..(Len(s) - Len(pat)) :
                      /\ SubSeq(s, j + 1, j + Len(pat)) = pat
                      /\ \A k \in 0..(j - 1) : SubSeq(s, k + 1, k + Len(pat)) # pat
         IN  AfterLast(SubSeq(s, i + Len(pat) + 1, Len(s)), pat)

IsLeapYear(year) == (year % 4 = 0 /\ year % 100 # 0) \/ year % 400 = 0
DaysInMonth(year, month) ==
    IF month = 2 THEN (IF IsLeapYear(year) THEN 29 ELSE 28)
    ELSE IF month \in {4, 6, 9, 11} THEN 30 ELSE 31

AllDigits(s) == \A i \in 1..Len(s) : s[i] \in Digits

\* Date::parse(text, "[day]-[month]-[year]"): Some(date) or None.
ParseDate(text) ==
    IF /\ Len(text) = 10
       /\ text[3] = "-" /\ text[6] = "-"
       /\ AllDigits(SubSeq(text, 1, 2)) /\ AllDigits(SubSeq(text, 4, 5))
       /\ AllDigits(SubSeq(text, 7, 10))
    THEN LET day == DecimalValue(SubSeq(text, 1, 2))
             month == DecimalValue(SubSeq(text, 4, 5))
             year == DecimalValue(SubSeq(text, 7, 10))
         IN  IF month \in 1..12 /\ day >= 1 /\ day <= DaysInMonth(year, month)
             THEN Some([year |-> year, month |-> month, day |-> day])
             ELSE None
    ELSE None

Ingangsdatum == <<"I", "n", "g", "a", "n", "g", "s", "d", "a", "t", "u", "m", " ">>
Dienst == <<"D", "i", "e", "n", "s", "t", " ">>

\* Mutant of identify_metadata: the location rule is tested first.
identify_metadata_location_first(m, metadata, current_y, current_x) ==
    IF current_y > 7600 /\ current_x > 3000
    THEN Some([m EXCEPT !.location = metadata])
    ELSE Some(m)

\* Mutant of identify_metadata: a text without a literal is stored as the
\* location wherever it lies.
identify_metadata_any_location(m, metadata, current_y, current_x) ==
    IF \E pat \in {Ingangsdatum, Dienst, <<"W", "O">>, <<"Z", "A">>, <<"Z", "O">>,
                   <<"/", "D", "O", "/", "V", "R">>} : Contains(metadata, pat)
    THEN Some(m)
    ELSE Some([m EXCEPT !.location = metadata])

\* identify_metadata on the fields m = [start_date, valid_on, shift_number,
\* location]: Some(the fields after the call), or None.  Coordinates are in
\* tenths of a unit.
identify_metadata(m, metadata, current_y, current_x) ==
    IF Contains(metadata, Ingangsdatum)
    THEN LET date == ParseDate(AfterLast(metadata, Ingangsdatum))
         IN  IF date = None THEN None ELSE Some([m EXCEPT !.start_date = date.some])
    ELSE IF Contains(metadata, Dienst)
    THEN Some([m EXCEPT !.shift_number = RemoveSpaces(AfterLast(metadata, Dienst))])
    ELSE IF Contains(metadata, <<"M", "A", "/", "D", "I", "/", "W", "O", "/", "D", "O", "/", "V", "R">>)
    THEN Some([m EXCEPT !.valid_on = "Weekdays"])
    ELSE IF Contains(metadata, <<"M", "A", "/", "D", "I", "/", "D", "O", "/", "V", "R">>)
    THEN Some([m EXCEPT !.valid_on = "WeekdaysExceptWednesday"])
    ELSE IF Contains(metadata, <<"W", "O">>)
    THEN Some([m EXCEPT !.valid_on = "Wednesday"])
    ELSE IF Contains(metadata, <<"Z", "A">>)
    THEN Some([m EXCEPT !.valid_on = "Saturday"])
    ELSE IF Contains(metadata, <<"Z", "O">>)
    THEN Some([m EXCEPT !.valid_on = "Sunday"])
    ELSE IF current_y > 7600 /\ current_x > 3000
    THEN Some([m EXCEPT !.location = metadata])
    ELSE Some(m)

(***************************************************************************)
(* Page parser: get_line_information                                       *)
(***************************************************************************)
\* The seven column slots, all None.
EmptyRow ==
    [lijn_number |-> None, omloop |-> None, rit |-> None, start |-> None,
     van |-> None, naar |-> None, eind |-> None]

\* The column bounds (lines 228-240), in tenths of a unit.
ColumnBounds(offset) ==
    [lijn_lower |-> 830 - 830 - offset,
     lijn_upper |-> 1500 - 830 - offset,
     omloop_lower |-> 1501 - 830 - offset,
     omloop_upper |-> 2900 - 830 - offset,
     rit_lower |-> 3000 - 830 - offset,
     rit_upper |-> 3500 - 830 - offset,
     start_lower |-> 3500 - 830 - offset,
     start_upper |-> 3900 - 830 - offset,
     van_lower |-> 4000 - 830 - offset,
     van_upper |-> 4200 - 830 - offset,
     naar_lower |-> 4500 - 830 - offset,
     naar_upper |-> 4800 - 830 - offset,
     eind_lower |-> 4900 - 830 - offset]

\* Line 265: the token lies outside the table band.
OutsideBand(current_y) == current_y < 500 \/ current_y > 7350

\* Mutant of PlaceInColumn: the start column is tested before the trip column.
PlaceInColumnStartFirst(row, current_x, offset, line) ==
    IF current_x >= ColumnBounds(offset).lijn_lower /\ current_x <= ColumnBounds(offset).lijn_upper
    THEN [row EXCEPT !.lijn_number = Some(line)]
    ELSE IF current_x >= ColumnBounds(offset).omloop_lower /\ current_x <= ColumnBounds(offset).omloop_upper
    THEN [row EXCEPT !.omloop = Some(line)]
    ELSE IF current_x >= ColumnBounds(offset).start_lower /\ current_x <= ColumnBounds(offset).start_upper
    THEN [row EXCEPT !.start = Some(line)]
    ELSE IF current_x >= ColumnBounds(offset).rit_lower /\ current_x <= ColumnBounds(offset).rit_upper
    THEN [row EXCEPT !.rit = Some(line)]
    ELSE IF current_x >= ColumnBounds(offset).van_lower /\ current_x <= ColumnBounds(offset).van_upper
    THEN [row EXCEPT !.van = Some(line)]
    ELSE IF current_x >= ColumnBounds(offset).naar_lower /\ current_x <= ColumnBounds(offset).naar_upper
    THEN [row EXCEPT !.naar = Some(line)]
    ELSE IF current_x >= ColumnBounds(offset).eind_lower
    THEN [row EXCEPT !.eind = Some(line)]
    ELSE row

\* Lines 281-295: the chain of column tests for a token inside the band.
PlaceInColumn(row, current_x, offset, line) ==
    IF current_x >= ColumnBounds(offset).lijn_lower /\ current_x <= ColumnBounds(offset).lijn_upper
    THEN [row EXCEPT !.lijn_number = Some(line)]
    ELSE IF current_x >= ColumnBounds(offset).omloop_lower /\ current_x <= ColumnBounds(offset).omloop_upper
    THEN [row EXCEPT !.omloop = Some(line)]
    ELSE IF current_x >= ColumnBounds(offset).rit_lower /\ current_x <= ColumnBounds(offset).rit_upper
    THEN [row EXCEPT !.rit = Some(line)]
    ELSE IF current_x >= ColumnBounds(offset).start_lower /\ current_x <= ColumnBounds(offset).start_upper
    THEN [row EXCEPT !.start = Some(line)]
    ELSE IF current_x >= ColumnBounds(offset).van_lower /\ current_x <= ColumnBounds(offset).van_upper
    THEN [row EXCEPT !.van = Some(line)]
    ELSE IF current_x >= ColumnBounds(offset).naar_lower /\ current_x <= ColumnBounds(offset).naar_upper
    THEN [row EXCEPT !.naar = Some(line)]
    ELSE IF current_x >= ColumnBounds(offset).eind_lower
    THEN [row EXCEPT !.eind = Some(line)]
    ELSE row

\* The fields identify_metadata may set.
MetadataOf(st) ==
    [start_date |-> st.start_date, valid_on |-> st.valid_on,
     shift_number |-> st.shift_number, location |-> st.location]

\* Lines 253-262: the job is pushed unless it is empty, and the row is reset.
FinalizeRow(st, job) ==
    [st EXCEPT !.jobs = IF empty(job) THEN @ ELSE Append(@, job), !.row = EmptyRow]

\* Lines 267-279: the metadata m found for a token outside the band.
StoreMetadata(st, m, page_number) ==
    IF m = None
    THEN [st |-> st, ret |-> MetadataFailure(page_number), metadata |-> TRUE]
    ELSE [st |-> [st EXCEPT !.start_date = m.some.start_date,
                            !.valid_on = m.some.valid_on,
                            !.shift_number = m.some.shift_number,
                            !.location = m.some.location],
          ret |-> Ok, metadata |-> TRUE]

\* Lines 265-297: the token goes to identify_metadata or to a column.
RouteToken(st, current_y, current_x, offset, page_number, line) ==
    IF OutsideBand(current_y)
    THEN StoreMetadata(st, identify_metadata(MetadataOf(st), line, current_y, current_x),
                       page_number)
    ELSE [st |-> [st EXCEPT !.row = PlaceInColumn(@, current_x, offset, line)],
          ret |-> Ok, metadata |-> FALSE]

\* Mutant of FinalizeAndRoute: the row is reset before the error of
\* job_creator is returned.
FinalizeAndRouteResetOnError(st, job, current_y, current_x, offset, page_number, line) ==
    IF "error" \in DOMAIN job
    THEN [st |-> [st EXCEPT !.row = EmptyRow], ret |-> job, metadata |-> FALSE]
    ELSE RouteToken(FinalizeRow(st, job.ok), current_y, current_x, offset, page_number,
                    line)

\* Lines 251-263: an error of job_creator is returned at once, before the
\* row is reset and before the token is looked at.
FinalizeAndRoute(st, job, current_y, current_x, offset, page_number, line) ==
    IF "error" \in DOMAIN job
    THEN [st |-> st, ret |-> job, metadata |-> FALSE]
    ELSE RouteToken(FinalizeRow(st, job.ok), current_y, current_x, offset, page_number,
                    line)

\* get_line_information on the locals st of get_line_element: the locals
\* after the call, the value returned (Ok or the error), and whether the
\* token reached identify_metadata.
get_line_information(st, last_y, current_y, current_x, offset, page_number, line) ==
    IF last_y # current_y
    THEN FinalizeAndRoute(st,
                          job_creator(st.row.lijn_number, st.row.omloop, st.row.rit,
                                      st.row.start, st.row.eind, st.row.van, st.row.naar),
                          current_y, current_x, offset, page_number, line)
    ELSE RouteToken(st, current_y, current_x, offset, page_number, line)

\* Date::from_calendar_date(2025, June, 29)
DefaultStartDate == [year |-> 2025, month |-> 6, day |-> 29]

\* The locals of get_line_element before the loop (lines 155-166).
InitialLocals(shift_number) ==
    [row |-> EmptyRow, jobs |-> <<>>, start_date |-> DefaultStartDate,
     valid_on |-> "Unknown", shift_number |-> shift_number, location |-> <<>>]

\* Mutant of ParseErrorOf: the collected errors are not reported.
ParseErrorDropped(line_errors) == None

\* Lines 200-204: the parse_error field.
ParseErrorOf(line_errors) == IF line_errors # <<>> THEN Some(line_errors) ELSE None

\* Mutant of ShiftOf: the row left after the last token is finalized too.
ShiftOfFlushed(st, line_errors) ==
    LET job == job_creator(st.row.lijn_number, st.row.omloop, st.row.rit, st.row.start,
                           st.row.eind, st.row.van, st.row.naar)
    IN  [shift_nr |-> st.shift_number, valid_on |-> st.valid_on, location |-> st.location,
         shift_type |-> None,
         job |-> IF "ok" \in DOMAIN job THEN Append(st.jobs, job.ok) ELSE st.jobs,
         starting_date |-> st.start_date,
         parse_error |-> ParseErrorOf(line_errors)]

\* Lines 193-205: the Shift built from the locals.
ShiftOf(st, line_errors) ==
    [shift_nr |-> st.shift_number, valid_on |-> st.valid_on, location |-> st.location,
     shift_type |-> None, job |-> st.jobs, starting_date |-> st.start_date,
     parse_error |-> ParseErrorOf(line_errors)]

(***************************************************************************)
(* SpecRows: get_line_element on a page's tokens, one call of              *)
(* get_line_information a step                                             *)
(***************************************************************************)
\* The number of tokens of a page.
MaxTokens == 3

Token(text, x, y) == [text |-> text, x |-> x, y |-> y]

T12 == <<"1", "2">>
T7x == <<"7", "x">>

\* Two rows of the table and a line below the band.
RowYs == {1000, 2000, 300}

\* Tokens of the line/duty, trip and start columns (for the offset 0): a
\* break, a trip number, a start time without digits, a start time without
\* minutes.
RowTokens ==
    {Token(Pauze, 100, y) : y \in RowYs} \cup {Token(T12, 2400, y) : y \in RowYs}
    \cup {Token(T7x, 2900, y) : y \in RowYs} \cup {Token(T12, 2900, y) : y \in RowYs}

\* Tokens on and between the column bounds, in the first row.
ProbeXs == {0 - 10, 670, 671, 2100, 2670, 3100, 3200, 3700, 4070, 9000}
ProbeTokens == {Token(T12, x, 1000) : x \in ProbeXs}

PageTokens == RowTokens \cup ProbeTokens

\* The offsets of an even and of an odd page.
RowOffsets == {0, 480}

InitRows ==
    /\ dienstboek = <<>>
    /\ dir_exists = TRUE
    /\ disk = EmptyDisk
    /\ new_timetable = NoDate
    /\ UPCOMING_TIMETABLE_DATE = NoDate
    /\ MOST_RECENT_VALID_TIMETABLE = NewCollection
    /\ VALID_TIMETABLES = <<>>
    /\ today = 0
    /\ pc = [w \in Workers |-> "idle"]
    /\ loc = [w \in Workers |-> IdleLocals]
    /\ resp = [w \in Workers |-> None]
    /\ lookup = IdleLookup
    /\ handled = IdleHandled
    /\ calls = <<>>
    /\ ALL_TIMETABLE_COLLECTIONS = <<>>
    /\ table_lock = Unlocked
    /\ shift_bodies = NoBodies
    /\ parse = IdleParse

\* get_line_element, lines 144-166: the locals before the loop.
GetLineElementStart(offset, page_number, shift_number) ==
    /\ parse.stage = "idle"
    /\ parse' = [stage |-> "loop", offset |-> offset, page_number |-> page_number,
                 n |-> 0, last_y |-> 0, st |-> InitialLocals(shift_number),
                 line_errors |-> <<>>, ret |-> Ok, token |-> None, metadata |-> FALSE,
                 ychanges |-> 0, result |-> None]
    /\ UNCHANGED <<shift_bodies, tableVars, serverVars, calls>>

\* One iteration of the loop, lines 167-192; last_y starts as the y of the
\* first token (lines 146-154).
ProcessToken(item) ==
    /\ parse.stage = "loop"
    /\ parse.n < MaxTokens
    /\ \E last_y \in {IF parse.n = 0 THEN item.y ELSE parse.last_y} :
         \E r \in {get_line_information(parse.st, last_y, item.y, item.x, parse.offset,
                                        parse.page_number, item.text)} :
            parse' = [parse EXCEPT
                         !.n = @ + 1,
                         !.st = r.st,
                         !.ret = r.ret,
                         !.line_errors = IF r.ret = Ok THEN @ ELSE Append(@, r.ret),
                         !.last_y = item.y,
                         !.token = item,
                         !.metadata = r.metadata,
                         !.ychanges = @ + (IF last_y # item.y THEN 1 ELSE 0)]
    /\ UNCHANGED <<shift_bodies, tableVars, serverVars, calls>>

\* The end of the items: Err("first line") for an empty page (lines 146-152),
\* otherwise the Shift (lines 193-205).
ReturnShift ==
    /\ parse.stage = "loop"
    /\ parse' = [parse EXCEPT
                    !.stage = "done",
                    !.result = IF parse.n = 0 THEN OptionError("first line", None, None)
                               ELSE ShiftOf(parse.st, parse.line_errors)]
    /\ UNCHANGED <<shift_bodies, tableVars, serverVars, calls>>

NextRows ==
    \/ \E offset \in RowOffsets : GetLineElementStart(offset, 1, N1)
    \/ \E item \in PageTokens : ProcessToken(item)
    \/ ReturnShift

SpecRows == InitRows /\ [][NextRows]_vars

\* The step is one call of get_line_information.
TokenStep == parse.stage = "loop" /\ parse'.stage = "loop" /\ parse'.n = parse.n + 1

\* The token of the step lies on another y than the token before it.
YChange == parse.n > 0 /\ parse.last_y # parse'.token.y

\* The step returns the Shift of a page with tokens.
ShiftStep == parse.stage = "loop" /\ parse'.stage = "done" /\ parse.n > 0

Slots == DOMAIN EmptyRow

C14_RowResetOnYChange ==
    [][(TokenStep /\ YChange)
       => /\ \A c \in Slots : parse'.st.row[c] \in {None, Some(parse'.token.text)}
          /\ Cardinality({c \in Slots : parse'.st.row[c] # None}) <= 1]_vars

\* C15: a token outside the table band finalizes no row, leaves the row as
\* it is and does not become the y the next token is compared with.
C15_MetadataNoRowBoundary ==
    [][(TokenStep /\ parse.n > 0 /\ OutsideBand(parse'.token.y))
       => /\ parse'.st.jobs = parse.st.jobs
          /\ parse'.st.row = parse.st.row
          /\ parse'.last_y = parse.last_y]_vars

\* C16: the jobs never outnumber the changes of y between consecutive
\* tokens, and the Shift holds the jobs built at those changes only: the row
\* left after the last token gives no job.
C16_TrailingRowNotFlushed ==
    /\ parse.stage \in {"loop", "done"} => Len(parse.st.jobs) <= parse.ychanges
    /\ (parse.stage = "done" /\ parse.n > 0)
          => /\ parse.result.job = parse.st.jobs
             /\ Len(parse.result.job) <= parse.ychanges

\* C16 witness: the page ended with a token in the row, after one job.
C16_Witness ==
    /\ parse.stage = "done"
    /\ parse.n > 0
    /\ parse.st.row.lijn_number # None
    /\ parse.ychanges = 1
    /\ Len(parse.result.job) = 1

\* C17: a job built at a row boundary is discarded exactly when its job_type
\* is Unknown and start, end, start_location, end_location, cycle and trip
\* are all absent.
C17_EmptyJobRule ==
    [][(TokenStep /\ YChange /\ parse'.ret = Ok)
       => LET row == parse.st.row
              job == job_creator(row.lijn_number, row.omloop, row.rit, row.start,
                                 row.eind, row.van, row.naar).ok
          IN  (parse'.st.jobs = parse.st.jobs)
              <=> (/\ job.job_type = Unknown
                   /\ job.start = None /\ job.end = None
                   /\ job.start_location = None /\ job.end_location = None
                   /\ job.omloop = None /\ job.rit = None)]_vars

\* C18: a token outside the table band is handed to identify_metadata and
\* written into no column slot; a token inside the band is not handed to
\* identify_metadata.
C18_TableBandRouting ==
    [][TokenStep
       => IF OutsideBand(parse'.token.y)
          THEN /\ parse'.metadata
               /\ parse'.st.row \in {parse.st.row, EmptyRow}
          ELSE ~parse'.metadata]_vars

\* The column intervals in their fixed order; the last has no upper bound.
ColumnOrder == <<"lijn_number", "omloop", "rit", "start", "van", "naar", "eind">>
InColumn(i, x, offset) ==
    IF i = 1 THEN x >= ColumnBounds(offset).lijn_lower /\ x <= ColumnBounds(offset).lijn_upper
    ELSE IF i = 2 THEN x >= ColumnBounds(offset).omloop_lower /\ x <= ColumnBounds(offset).omloop_upper
    ELSE IF i = 3 THEN x >= ColumnBounds(offset).rit_lower /\ x <= ColumnBounds(offset).rit_upper
    ELSE IF i = 4 THEN x >= ColumnBounds(offset).start_lower /\ x <= ColumnBounds(offset).start_upper
    ELSE IF i = 5 THEN x >= ColumnBounds(offset).van_lower /\ x <= ColumnBounds(offset).van_upper
    ELSE IF i = 6 THEN x >= ColumnBounds(offset).naar_lower /\ x <= ColumnBounds(offset).naar_upper
    ELSE x >= ColumnBounds(offset).eind_lower

\* C19: a token inside the band that reaches the column tests sets the slot
\* of the first column, in the fixed order, whose interval holds its x and
\* no other slot; an x on the bound shared by Trip and StartTime sets Trip;
\* an x at or above the lower bound of EndTime sets EndTime; an x in no
\* interval leaves the row unchanged.
C19_FirstMatchWins ==
    [][(TokenStep /\ ~OutsideBand(parse'.token.y) /\ parse'.ret = Ok)
       => LET x == parse'.token.x
              offset == parse.offset
              before == IF YChange THEN EmptyRow ELSE parse.st.row
              after == parse'.st.row
              matches == {i \in 1..7 : InColumn(i, x, offset)}
          IN  /\ Cardinality({c \in Slots : after[c] # before[c]}) <= 1
              /\ matches = {} => after = before
              /\ matches # {}
                    => after = [before EXCEPT ![ColumnOrder[Min(matches)]] =
                                                 Some(parse'.token.text)]
              /\ x = ColumnBounds(offset).rit_upper
                    => after.rit = Some(parse'.token.text) /\ after.start = before.start
              /\ x >= ColumnBounds(offset).eind_lower => after.eind = Some(parse'.token.text)]_vars

\* C19 witness: a token on the bound shared by Trip and StartTime has been
\* placed in the Trip slot.
C19_Witness ==
    /\ parse.stage = "loop"
    /\ parse.n > 0
    /\ parse.ret = Ok
    /\ parse.token.x = ColumnBounds(parse.offset).rit_upper
    /\ parse.token.x = ColumnBounds(parse.offset).start_lower
    /\ parse.st.row.rit = Some(parse.token.text)
    /\ parse.st.row.start = None

(***************************************************************************)
(* SpecPage: parse_page on a page stream                                   *)
(***************************************************************************)
\* The number of lines of a page stream.
MaxLines == 4

\* A whitespace-separated field of a line: a numeral with its value (in
\* tenths of a unit), or a word that str::parse::<f32> rejects.
Num(v) == [num |-> v]
Word == [word |-> TRUE]

\* A line of the stream: its fields, and the texts of its parenthesized
\* literals in order.
Line(fields, caps) == [fields |-> fields, caps |-> caps]
CoordinateLine(x, y) == Line(<<Num(x), Num(y)>>, <<>>)
TextLine(caps) == Line(<<Word>>, caps)

\* Coordinate lines of two table rows and of a line below the band; literal
\* lines; an empty line; a line with one number; a line of words.
StreamLines ==
    {CoordinateLine(0, 1000), CoordinateLine(100, 1000), CoordinateLine(100, 2000),
     CoordinateLine(0, 300)}
    \cup {TextLine(<<Pauze>>), TextLine(<<T12>>), TextLine(<<Pauze, T12>>)}
    \cup {Line(<<>>, <<>>), Line(<<Num(100)>>, <<>>), Line(<<Word, Word>>, <<>>)}

RECURSIVE SeqsUpTo(_, _)
SeqsUpTo(S, n) ==
    IF n = 0 THEN {<<>>}
    ELSE SeqsUpTo(S, n - 1) \cup {Append(q, x) : q \in SeqsUpTo(S, n - 1), x \in S}

Streams == SeqsUpTo(StreamLines, MaxLines)

\* The outcomes of parse_page beside Ok(Shift): the Err of a failed
\* str::parse::<f32>, and a panic.
ParseFloatError == [error |-> "ParseFloatError"]
Panic == [panic |-> TRUE]

\* Lines 90-116 for a literal on the line line_number (from 0): its
\* coordinate, read from the line before, as [ok |-> <<x, y>>], or the error.
\* On line 0 the subtraction line_number - 1 overflows: a panic where overflow
\* is checked, otherwise nth(usize::MAX), which is None.
Coordinates(stream, line_number) ==
    IF line_number = 0
    THEN {Panic, OptionError("line coordinates", None, None)}
    ELSE LET coordinate_split == stream[line_number].fields
         IN  IF Len(coordinate_split) < 1
             THEN {OptionError("line x coordinate", None, None)}
             ELSE IF "num" \notin DOMAIN coordinate_split[1] THEN {ParseFloatError}
             ELSE IF Len(coordinate_split) < 2
             THEN {OptionError("line y coordinate", None, None)}
             ELSE IF "num" \notin DOMAIN coordinate_split[2] THEN {ParseFloatError}
             ELSE {[ok |-> <<coordinate_split[1].num, coordinate_split[2].num>>]}

\* Mutant of minimal_x: the sign is not reversed.
minimal_x_not_negated(line_elements) ==
    IF line_elements = <<>> THEN 0
    ELSE Min({line_elements[i].x : i \in 1..Len(line_elements)})

\* Lines 127-133: the offset of the page.
minimal_x(line_elements) ==
    IF line_elements = <<>> THEN 0
    ELSE 0 - Min({line_elements[i].x : i \in 1..Len(line_elements)})

RECURSIVE LineLoop(_, _, _, _, _, _)
\* Lines 187-191: an error r.ret of the call is pushed, and the loop goes on
\* with the locals r.st the call left.
RecordAndContinue(r, line_errors, items, offset, page_number) ==
    LineLoop(r.st, IF r.ret = Ok THEN line_errors ELSE Append(line_errors, r.ret),
             items[1].y, Tail(items), offset, page_number)

\* The loop of get_line_element over the items (lines 167-192).
LineLoop(st, line_errors, last_y, items, offset, page_number) ==
    IF items = <<>> THEN [st |-> st, line_errors |-> line_errors]
    ELSE RecordAndContinue(get_line_information(st, last_y, items[1].y, items[1].x,
                                                offset, page_number, items[1].text),
                           line_errors, items, offset, page_number)

\* get_line_element: the Shift, or Err("first line") for no items.
get_line_element(items, offset, page_number, shift_number) ==
    IF items = <<>> THEN OptionError("first line", None, None)
    ELSE LET r == LineLoop(InitialLocals(shift_number), <<>>, items[1].y, items, offset,
                           page_number)
         IN  ShiftOf(r.st, r.line_errors)

InitPage ==
    /\ dienstboek = <<>>
    /\ dir_exists = TRUE
    /\ disk = EmptyDisk
    /\ new_timetable = NoDate
    /\ UPCOMING_TIMETABLE_DATE = NoDate
    /\ MOST_RECENT_VALID_TIMETABLE = NewCollection
    /\ VALID_TIMETABLES = <<>>
    /\ today = 0
    /\ pc = [w \in Workers |-> "idle"]
    /\ loc = [w \in Workers |-> IdleLocals]
    /\ resp = [w \in Workers |-> None]
    /\ lookup = IdleLookup
    /\ handled = IdleHandled
    /\ calls = <<>>
    /\ ALL_TIMETABLE_COLLECTIONS = <<>>
    /\ table_lock = Unlocked
    /\ shift_bodies = NoBodies
    /\ \E page_stream \in Streams :
           parse = [stage |-> "extract", page_stream |-> page_stream, page_number |-> 1,
                    shift_number |-> N1, line_number |-> 0, cap |-> 1,
                    line_elements |-> <<>>, result |-> None]

\* Lines 88-89: the next line of the stream, when the literals of this line
\* are done.
NextLine ==
    /\ parse.stage = "extract"
    /\ parse.line_number < Len(parse.page_stream)
    /\ parse.cap > Len(parse.page_stream[parse.line_number + 1].caps)
    /\ parse' = [parse EXCEPT !.line_number = @ + 1, !.cap = 1]
    /\ UNCHANGED <<shift_bodies, tableVars, serverVars, calls>>

\* Lines 89-125: one literal of the line; a failure ends parse_page.
ExtractToken ==
    /\ parse.stage = "extract"
    /\ parse.line_number < Len(parse.page_stream)
    /\ parse.cap <= Len(parse.page_stream[parse.line_number + 1].caps)
    /\ \E coordinate \in Coordinates(parse.page_stream, parse.line_number) :
           IF "ok" \in DOMAIN coordinate
           THEN parse' = [parse EXCEPT
                             !.cap = @ + 1,
                             !.line_elements =
                                 Append(@, Token(parse.page_stream[parse.line_number + 1]
                                                     .caps[parse.cap],
                                                 coordinate.ok[1], coordinate.ok[2]))]
           ELSE parse' = [parse EXCEPT !.stage = "done", !.result = coordinate]
    /\ UNCHANGED <<shift_bodies, tableVars, serverVars, calls>>

\* Lines 127-135: the offset, and get_line_element on the tokens.
Assemble ==
    /\ parse.stage = "extract"
    /\ parse.line_number = Len(parse.page_stream)
    /\ parse' = [parse EXCEPT
                    !.stage = "done",
                    !.result = get_line_element(parse.line_elements,
                                                minimal_x(parse.line_elements),
                                                parse.page_number, parse.shift_number)]
    /\ UNCHANGED <<shift_bodies, tableVars, serverVars, calls>>

NextPage == NextLine \/ ExtractToken \/ Assemble

SpecPage == InitPage /\ [][NextPage]_vars

\* The literal on line l (from 0) has a coordinate line before it.
WellFormed(page_stream, l) ==
    /\ l > 0
    /\ Len(page_stream[l].fields) >= 2
    /\ "num" \in DOMAIN page_stream[l].fields[1]
    /\ "num" \in DOMAIN page_stream[l].fields[2]

\* The tokens of the lines l.. of the stream that have a coordinate line.
RECURSIVE WellFormedTokens(_, _)
WellFormedTokens(page_stream, l) ==
    IF l >= Len(page_stream) THEN <<>>
    ELSE (IF WellFormed(page_stream, l)
          THEN [c \in 1..Len(page_stream[l + 1].caps) |->
                   Token(page_stream[l + 1].caps[c],
                         page_stream[l].fields[1].num, page_stream[l].fields[2].num)]
          ELSE <<>>)
         \o WellFormedTokens(page_stream, l + 1)

HasMalformedToken(page_stream) ==
    \E l \in 0..(Len(page_stream) - 1) :
        page_stream[l + 1].caps # <<>> /\ ~WellFormed(page_stream, l)

\* C12: when a literal of the page has no coordinate line before it (also a
\* literal on the first line) or that line is not two numbers, parse_page
\* still produces a Shift, records an error, and extracts every other token.
C12_MalformedTokenNeverAborts ==
    (parse.stage = "done" /\ HasMalformedToken(parse.page_stream))
    => /\ "job" \in DOMAIN parse.result
       /\ parse.result.parse_error # None
       /\ parse.line_elements = WellFormedTokens(parse.page_stream, 0)

\* The tokens parse_page extracts from a stream: [ok |-> tokens], or None
\* when a literal fails.
ExtractAll(page_stream) ==
    IF HasMalformedToken(page_stream) THEN None
    ELSE [ok |-> WellFormedTokens(page_stream, 0)]

\* The jobs parse_page gives for a stream: Some(jobs), or None without a Shift.
PageJobs(page_stream) ==
    LET extracted == ExtractAll(page_stream)
    IN  IF extracted = None \/ extracted.ok = <<>> THEN None
        ELSE Some(get_line_element(extracted.ok, minimal_x(extracted.ok), 1, N1).job)

IsCoordinateLine(line) ==
    /\ Len(line.fields) >= 2
    /\ "num" \in DOMAIN line.fields[1]
    /\ "num" \in DOMAIN line.fields[2]

\* Every coordinate of the page moved horizontally by c.
TranslateAll(page_stream, c) ==
    [l \in 1..Len(page_stream) |->
        IF IsCoordinateLine(page_stream[l])
        THEN [page_stream[l] EXCEPT !.fields[1] = Num(@.num + c)]
        ELSE page_stream[l]]

\* The coordinates inside the table band moved horizontally by c.
TranslateTable(page_stream, c) ==
    [l \in 1..Len(page_stream) |->
        IF IsCoordinateLine(page_stream[l]) /\ ~OutsideBand(page_stream[l].fields[2].num)
        THEN [page_stream[l] EXCEPT !.fields[1] = Num(@.num + c)]
        ELSE page_stream[l]]

Translations == {1000, 0 - 50}

\* Moving the column bounds and the x of a token by the same distance gives
\* the same column (the bounds are nominal - offset).
SameColumnWhenDisplaced(line_elements) ==
    \A i \in 1..Len(line_elements) :
        \A offset \in RowOffsets \cup {minimal_x(line_elements)}, c \in Translations :
            PlaceInColumn(EmptyRow, line_elements[i].x + c, offset - c,
                          line_elements[i].text)
            = PlaceInColumn(EmptyRow, line_elements[i].x, offset, line_elements[i].text)

MetadataTexts ==
    {<<"I", "n", "g", "a", "n", "g", "s", "d", "a", "t", "u", "m", " ", "0", "1", "-", "0", "2", "-", "2", "0", "2", "6">>,
     <<"I", "n", "g", "a", "n", "g", "s", "d", "a", "t", "u", "m", " ", "3", "1", "-", "0", "2", "-", "2", "0", "2", "6">>,
     <<"D", "i", "e", "n", "s", "t", " ", "V", " ", "1", "2">>,
     <<"M", "A", "/", "D", "I", "/", "W", "O", "/", "D", "O", "/", "V", "R">>,
     <<"M", "A", "/", "D", "I", "/", "D", "O", "/", "V", "R">>,
     <<"W", "O">>,
     <<"Z", "A">>,
     <<"Z", "O">>,
     <<"R", "e", "m", "i", "s", "e">>,
     <<"Z", "W", "O", "L", "L", "E">>,
     <<"D", "i", "e", "n", "s", "t", " ", "W", "O", " ", "1", "2", " ", "I", "n", "g", "a", "n", "g", "s", "d", "a", "t", "u", "m", " ", "0", "1", "-", "0", "2", "-", "2", "0", "2", "6">>,
     <<"M", "A", "/", "D", "I", "/", "W", "O", "/", "D", "O", "/", "V", "R", " ", "D", "i", "e", "n", "s", "t", " ", "7">>,
     <<"Z", "O", " ", "Z", "A">>,
     <<"M", "A", "/", "D", "I", "/", "D", "O", "/", "V", "R", " ", "W", "O">>}

\* Above the band and right of the location threshold, below the band, and
\* above the band on the threshold.
MetadataPlaces == {<<3100, 7700>>, <<3100, 300>>, <<3000, 7700>>}

\* The tokens outside the band, and a start time without minutes in a row.
MetadataTokens ==
    {Token(text, place[1], place[2]) : text \in MetadataTexts, place \in MetadataPlaces}
    \cup {Token(T12, 2900, 1000)}

NextMetadata ==
    \/ GetLineElementStart(0, 1, N1)
    \/ \E item \in MetadataTokens : ProcessToken(item)
    \/ ReturnShift

SpecMetadata == InitRows /\ [][NextMetadata]_vars

\* The step hands its token to identify_metadata.
MetadataStep == TokenStep /\ parse'.metadata

MetadataFields == {"start_date", "valid_on", "shift_number", "location"}

\* The fields the step changes.
Changed ==
    {f \in MetadataFields : MetadataOf(parse'.st)[f] # MetadataOf(parse.st)[f]}

\* The literals in their priority order.
RulePatterns ==
    <<Ingangsdatum, Dienst, <<"M", "A", "/", "D", "I", "/", "W", "O", "/", "D", "O", "/", "V", "R">>,
      <<"M", "A", "/", "D", "I", "/", "D", "O", "/", "V", "R">>, <<"W", "O">>, <<"Z", "A">>, <<"Z", "O">>>>

\* The rank of the first rule that matches a token: 1..7 a literal, 8 the
\* location, 9 none.
FirstRule(item) ==
    IF \E i \in 1..7 : Contains(item.text, RulePatterns[i])
    THEN Min({i \in 1..7 : Contains(item.text, RulePatterns[i])})
    ELSE IF item.y > 7600 /\ item.x > 3000 THEN 8 ELSE 9

RuleField ==
    <<"start_date", "shift_number", "valid_on", "valid_on", "valid_on", "valid_on",
      "valid_on", "location", "none">>

RuleValidOn ==
    <<"", "", "Weekdays", "WeekdaysExceptWednesday", "Wednesday", "Saturday", "Sunday">>

\* C21: a token handed to identify_metadata changes at most one field, the
\* field of the first rule that matches in the order Ingangsdatum, Dienst,
\* MA/DI/WO/DO/VR, MA/DI/DO/VR, WO, ZA, ZO, location, and to the value of that
\* rule; a text with MA/DI/WO/DO/VR never sets Wednesday and sets Weekdays
\* when no rule before it matches; a text with WO, ZA or ZO is never stored
\* as the location.
C21_FirstRuleWins ==
    [][MetadataStep
       => /\ Cardinality(Changed) <= 1
          /\ Changed \subseteq {RuleField[FirstRule(parse'.token)]}
          /\ FirstRule(parse'.token) = 1
             => \/ /\ parse'.ret = Ok
                   /\ Some(parse'.st.start_date)
                      = ParseDate(AfterLast(parse'.token.text, Ingangsdatum))
                \/ /\ parse'.ret = MetadataFailure(parse.page_number)
                   /\ ParseDate(AfterLast(parse'.token.text, Ingangsdatum)) = None
                   /\ Changed = {}
          /\ FirstRule(parse'.token) = 2
             => parse'.st.shift_number
                = RemoveSpaces(AfterLast(parse'.token.text, Dienst))
          /\ FirstRule(parse'.token) \in 3..7
             => parse'.st.valid_on = RuleValidOn[FirstRule(parse'.token)]
          /\ FirstRule(parse'.token) = 8 => parse'.st.location = parse'.token.text
          /\ Contains(parse'.token.text, RulePatterns[3])
             => /\ "valid_on" \in Changed => parse'.st.valid_on = "Weekdays"
                /\ FirstRule(parse'.token) = 3 => parse'.st.valid_on = "Weekdays"
                /\ parse'.st.valid_on = "Wednesday" => parse.st.valid_on = "Wednesday"
          /\ (\E i \in 5..7 : Contains(parse'.token.text, RulePatterns[i]))
             => parse'.st.location = parse.st.location]_vars

\* C21 witness: texts that hold WO inside the weekday literal, inside a
\* place name above the location threshold, and beside the Dienst literal
\* have been handed to identify_metadata.
C21_Witness ==
    /\ parse.stage = "loop"
    /\ parse.n = 3
    /\ parse.metadata
    /\ parse.token = Token(<<"M", "A", "/", "D", "I", "/", "W", "O", "/", "D", "O", "/", "V", "R">>, 3100, 7700)
    /\ parse.st.valid_on = "Weekdays"
    /\ parse.st.shift_number = <<"7">>
    /\ parse.st.location = <<>>

\* C22: an out-of-band token that matches no literal and does not lie above
\* y 760 and right of x 300 leaves starting_date, shift_number, valid_on and
\* location as they were, never gives MetadataFailure, and gives no error at
\* all once it is handed to identify_metadata.
C22_UnmatchedMetadataIgnored ==
    [][(/\ TokenStep
        /\ OutsideBand(parse'.token.y)
        /\ FirstRule(parse'.token) = 9)
       => /\ Changed = {}
          /\ parse'.ret # MetadataFailure(parse.page_number)
          /\ parse'.metadata => parse'.ret = Ok]_vars

\* C22 witness: a text without a literal on the location threshold has been
\* handed to identify_metadata after the location was set.
C22_Witness ==
    /\ parse.stage = "loop"
    /\ parse.metadata
    /\ parse.token = Token(<<"R", "e", "m", "i", "s", "e">>, 3000, 7700)
    /\ parse.ret = Ok
    /\ parse.st.location # <<>>

(***************************************************************************)
(* SpecJob: job_creator on the slots of one row                            *)
(***************************************************************************)
\* The hours and the minutes of the time strings.
MaxHour == 49
MaxMinute == 61

\* A number below 100 with two digits, and without a leading zero.
TwoDigits(n) == <<DigitSeq[(n \div 10) + 1], DigitSeq[(n % 10) + 1]>>
Unpadded(n) == IF n < 10 THEN <<DigitSeq[n + 1]>> ELSE TwoDigits(n)

\* The time strings hh:mm and h:m.
Padded(h, m) == TwoDigits(h) \o <<":">> \o TwoDigits(m)
Plain(h, m) == Unpadded(h) \o <<":">> \o Unpadded(m)

TimeStrings ==
    {Padded(h, m) : h \in 0..MaxHour, m \in 0..MaxMinute}
    \cup {Plain(h, m) : h \in 0..MaxHour, m \in 0..MaxMinute}

\* Time strings without a separator, without an hour or a minute, with a
\* letter, and with a component above 255.
MalformedTimes ==
    {<<"1", "2">>,
     <<>>,
     <<":", "3", "0">>,
     <<"1", "2", ":">>,
     <<"7", "x", ":", "0", "0">>,
     <<"1", "2", ":", "x">>,
     <<"2", "5", "6", ":", "0", "0">>,
     <<"1", "2", ":", "2", "5", "6">>}

LijnTexts ==
    {None,
     Some(<<"M", "A", "T">>),
     Some(<<"P", "a", "u", "z", "e">>),
     Some(<<"1", "2">>),
     Some(<<"+", "1", "2">>),
     Some(<<"4", "2", "9", "4", "9", "6", "7", "2", "9", "5">>),
     Some(<<"4", "2", "9", "4", "9", "6", "7", "2", "9", "6">>),
     Some(<<"O", "p", "/", "A", "f", "s", "t", "a", "p", "t", "i", "j", "d">>),
     Some(<<"n", "e", "e", "m", " ", "g", "e", "l", "e", "d", "e", " ", "b", "u", "s">>),
     Some(<<"B", "u", "s", " ", "o", "p", " ", "l", "i", "j", "n", " ", "7">>),
     Some(<<"B", "u", "s", " ", "o", "p", " ", "l", "i", "j", "n", " ", "x">>),
     Some(<<"P", "a", "s", "s", " ", "m", "e", "t", " ", "1", "2", "/", "3">>),
     Some(<<"P", "a", "s", "s", " ", "m", "e", "t", " ", "x">>),
     Some(<<"p", "o", "d", " ", "1", "2">>),
     Some(<<"M", "e", "e", "n", "e", "m", "e", "n">>),
     Some(<<>>)}

OmloopTexts ==
    {None,
     Some(<<"O", "n", "d", "e", "r", "b", "r", "e", "k", "i", "n", "g">>),
     Some(<<"L", "o", "o", "p", "/", "R", "e", "i", "s">>),
     Some(<<"R", "i", "j", "k", "l", "a", "a", "r", " ", "m", "a", "k", "e", "n">>),
     Some(<<"B", "u", "s", " ", "s", "t", "a", "l", "l", "e", "n", "/", "a", "f", "m">>),
     Some(<<"R", "e", "s", "e", "r", "v", "e">>),
     Some(<<"1", "2">>),
     Some(<<"7", "x">>),
     Some(<<>>),
     Some(<<"r", "e", "s", "e", "r", "v", "e">>)}

RitTexts ==
    {None,
     Some(<<"1", "2">>),
     Some(<<"7", "x">>),
     Some(<<"0", "1", "8">>)}

\* Time strings whose hour or minute is the greatest 8-bit value.
WideTimes ==
    {<<"2", "5", "5", ":", "0", "0">>,
     <<"2", "5", "5", ":", "2", "5", "5">>,
     <<"1", "2", ":", "2", "5", "5">>}

\* Rows with a time in the start column, rows with a malformed time in the
\* start or the end column, rows without times, and rows with the widest
\* hours and minutes.
JobRows ==
    {[EmptyRow EXCEPT !.start = Some(t), !.eind = e] :
        t \in TimeStrings, e \in {None, Some(<<"2", "5", ":", "3", "0">>)}}
    \cup {[EmptyRow EXCEPT !.start = t, !.eind = e] :
            t \in {None, Some(<<"2", "3", ":", "5", "9">>)} \cup {Some(b) : b \in WideTimes},
            e \in {None, Some(<<"4", "8", ":", "0", "0">>)} \cup {Some(b) : b \in WideTimes}}
    \cup {[EmptyRow EXCEPT !.start = t, !.eind = e, !.lijn_number = Some(Pauze)] :
            t \in {None, Some(<<"2", "3", ":", "5", "9">>)} \cup {Some(b) : b \in MalformedTimes},
            e \in {None} \cup {Some(b) : b \in MalformedTimes}}
    \cup {[EmptyRow EXCEPT !.lijn_number = l, !.omloop = o, !.rit = r,
                           !.van = Some(<<"A">>)] :
            l \in LijnTexts, o \in OmloopTexts, r \in RitTexts}

InitJob ==
    /\ dienstboek = <<>>
    /\ dir_exists = TRUE
    /\ disk = EmptyDisk
    /\ new_timetable = NoDate
    /\ UPCOMING_TIMETABLE_DATE = NoDate
    /\ MOST_RECENT_VALID_TIMETABLE = NewCollection
    /\ VALID_TIMETABLES = <<>>
    /\ today = 0
    /\ pc = [w \in Workers |-> "idle"]
    /\ loc = [w \in Workers |-> IdleLocals]
    /\ resp = [w \in Workers |-> None]
    /\ lookup = IdleLookup
    /\ handled = IdleHandled
    /\ calls = <<>>
    /\ ALL_TIMETABLE_COLLECTIONS = <<>>
    /\ table_lock = Unlocked
    /\ shift_bodies = NoBodies
    /\ \E row \in JobRows : parse = [stage |-> "row", row |-> row]

\* Line 251: job_creator on the slots of the row.
CreateJob ==
    /\ parse.stage = "row"
    /\ parse' = [stage |-> "job", row |-> parse.row,
                 job |-> job_creator(parse.row.lijn_number, parse.row.omloop,
                                     parse.row.rit, parse.row.start, parse.row.eind,
                                     parse.row.van, parse.row.naar)]
    /\ UNCHANGED <<shift_bodies, tableVars, serverVars, calls>>

NextJob == CreateJob

SpecJob == InitJob /\ [][NextJob]_vars

\* The clock time h:m.
Clock(h, m) == Some([hour |-> h, minute |-> m])

\* The time strings with an hour in 0..47 and a minute in 0..59, each with
\* the clock time the rollover rule gives it.
Rollover ==
    {<<Some(Padded(h, m)), Clock(IF h >= 24 THEN h - 24 ELSE h, m)>> :
        h \in 0..47, m \in 0..59}
    \cup {<<Some(Plain(h, m)), Clock(IF h >= 24 THEN h - 24 ELSE h, m)>> :
            h \in 0..47, m \in 0..59}

\* C23: a time string H:M (with or without leading zeros) with H in 0..23 and
\* M in 0..59 gives the time H:M, and with H in 24..47 the time (H-24):M; the
\* minute is the one of the string.  Stated for the start column of a row
\* whose end column is absent or holds such a string, and for that end column.
C23_HourRollover ==
    (parse.stage = "job" /\ (parse.row.eind = None \/ \E p \in Rollover : parse.row.eind = p[1]))
    => \A p \in Rollover :
           /\ parse.row.start = p[1]
              => ("ok" \in DOMAIN parse.job /\ parse.job.ok.start = p[2])
           /\ (parse.row.eind = p[1] /\ \E q \in Rollover : parse.row.start = q[1])
              => ("ok" \in DOMAIN parse.job /\ parse.job.ok.end = p[2])

\* C23 witness: the start time 25:30 has given 01:30.
C23_Witness ==
    /\ parse.stage = "job"
    /\ parse.row.start = Some(<<"2", "5", ":", "3", "0">>)
    /\ parse.row.eind = None
    /\ "ok" \in DOMAIN parse.job
    /\ parse.job.ok.start = Clock(1, 30)

\* The five literals of the cycle column with their job types.
CycleLiterals ==
    {<<<<"O", "n", "d", "e", "r", "b", "r", "e", "k", "i", "n", "g">>, "Onderbreking">>,
     <<<<"L", "o", "o", "p", "/", "R", "e", "i", "s">>, "LoopReis">>,
     <<<<"R", "i", "j", "k", "l", "a", "a", "r", " ", "m", "a", "k", "e", "n">>, "RijklaarMaken">>,
     <<<<"B", "u", "s", " ", "s", "t", "a", "l", "l", "e", "n", "/", "a", "f", "m">>, "StallenAfmelden">>,
     <<<<"R", "e", "s", "e", "r", "v", "e">>, "Reserve">>}

\* The row holds one of the five literals in its cycle column.
HasCycleLiteral(row) == \E p \in CycleLiterals : row.omloop = Some(p[1])

\* The job type has the kind the line/duty column alone asks for.
TypeByLine(job_type, lijn) ==
    IF lijn = None THEN job_type = Unknown
    ELSE IF lijn.some = <<"M", "A", "T">>
    THEN job_type = [type |-> "Rijden", drive_type |-> [drive |-> "Mat"]]
    ELSE IF lijn.some = <<"P", "a", "u", "z", "e">> THEN job_type = [type |-> "Pauze"]
    ELSE IF ParseUnsigned(lijn.some, U32Max) # None
    THEN job_type = [type |-> "Rijden",
                     drive_type |-> [drive |-> "Lijn",
                                     lijn |-> ParseUnsigned(lijn.some, U32Max).some]]
    ELSE IF lijn.some = <<"O", "p", "/", "A", "f", "s", "t", "a", "p", "t", "i", "j", "d">> THEN job_type = [type |-> "OpAfstap"]
    ELSE job_type.type = "Melding"

\* C30: a literal in the cycle column decides the job type whatever the
\* line/duty column holds, and the cycle number is then absent; otherwise the
\* line/duty column alone decides the job type and the cycle number is the
\* parsed unsigned integer, or absent; a cycle or trip column that is not a
\* number gives no error and leaves the field absent.
C30_JobTypePrecedence ==
    parse.stage = "job"
    => /\ (parse.row.start = None /\ parse.row.eind = None) => "ok" \in DOMAIN parse.job
       /\ "ok" \in DOMAIN parse.job
          => /\ \A p \in CycleLiterals :
                    parse.row.omloop = Some(p[1])
                    => /\ parse.job.ok.job_type = [type |-> p[2]]
                       /\ parse.job.ok.omloop = None
             /\ ~HasCycleLiteral(parse.row)
                => /\ TypeByLine(parse.job.ok.job_type, parse.row.lijn_number)
                   /\ parse.job.ok.omloop =
                          (IF parse.row.omloop = None THEN None
                           ELSE ParseUnsigned(parse.row.omloop.some, UsizeMax))
             /\ parse.job.ok.rit =
                    (IF parse.row.rit = None THEN None
                     ELSE ParseUnsigned(parse.row.rit.some, UsizeMax))

\* C30 witness: a row with a line number, the literal Reserve in the cycle
\* column and a trip column that is not a number has given a Reserve job
\* without cycle and trip.
C30_Witness ==
    /\ parse.stage = "job"
    /\ parse.row.lijn_number = Some(<<"1", "2">>)
    /\ parse.row.omloop = Some(<<"R", "e", "s", "e", "r", "v", "e">>)
    /\ parse.row.rit = Some(<<"7", "x">>)
    /\ "ok" \in DOMAIN parse.job
    /\ parse.job.ok.job_type = [type |-> "Reserve"]
    /\ parse.job.ok.omloop = None
    /\ parse.job.ok.rit = None

\* A time column without a separator, or with an hour or a minute that is
\* not a number.
MalformedTime(slot) ==
    /\ slot # None
    /\ \/ Len(Split(slot.some, ":")) < 2
       \/ \E i \in 1..2 : Split(slot.some, ":")[i] = <<>> \/ ~AllDigits(Split(slot.some, ":")[i])

Damage(x) ==
    /\ lookup.stage \in {"idle", "resolved"}
    /\ disk[x] # NoFile
    /\ \A y \in Dates : disk[y] # Corrupt
    /\ disk' = [disk EXCEPT ![x] = Corrupt]
    /\ UNCHANGED <<shift_bodies, tableVars, pageVars, dienstboek, dir_exists, new_timetable, sharedVars, today,
                   workerVars, lookup, handled>>

\* get_shift with a date, lines 321-324: get_valid_timetables(Some(date)) and
\* unwrap, which panics on an error.
ResolveOrPanic(date) ==
    /\ lookup.stage = "idle"
    /\ \E order \in Orders(Files(disk)) :
         \E r \in {GetValidTimetablesResult(disk, order, date)} :
            lookup' = IF "ok" \in DOMAIN r
                      THEN [lookup EXCEPT !.stage = "resolved", !.date = date,
                                          !.resolved = r.ok]
                      ELSE [lookup EXCEPT !.stage = "panicked", !.date = date]
    /\ UNCHANGED <<shift_bodies, tableVars, pageVars, storeVars, new_timetable, sharedVars, today, workerVars, handled>>

NextCorrupt ==
    \/ \E x \in Dates : Damage(x)
    \/ \E date \in Dates : ResolveOrPanic(date)
    \/ \E id \in Ids : Find(id)
    \/ Return

SpecCorrupt == InitResolve /\ [][NextCorrupt]_vars

\* The collections of the resolved active list that deserialize and list id.
ReadableListing(id) ==
    {x \in Range(lookup.resolved.active) :
        disk[x] \notin {NoFile, Corrupt} /\ id \in DOMAIN disk[x].pages}

\* C25: with one collection file that does not deserialize, no handler
\* panics, the resolution completes with the other collections partitioned
\* as if the corrupt file were absent, and find_shift still finds a number
\* that a readable collection of the active list holds.
C25_CorruptTreatedAsAbsent ==
    /\ lookup.stage # "panicked"
    /\ lookup.stage = "resolved"
       => {x \in Dates : disk[x] \notin {NoFile, Corrupt} /\ x <= lookup.date}
          \subseteq Range(lookup.resolved.active)
    /\ lookup.stage = "found"
       => (ReadableListing(lookup.id) # {} => lookup.found # NotFound)

(***************************************************************************)
(* SpecTable: load_timetables_from_disk and get_timetables on two threads, *)
(* each file read and each lock operation a step of its own, while         *)
(* collection files are written and damaged                                *)
(***************************************************************************)
\* The dates of the collection files that are written.
TableDates == {0, 1, 2}

\* Mutant of SortByValidFrom: the collections stay in directory order.
DirectoryOrder(collections) == collections

\* collections.sort_by_key(|key| key.valid_from): a stable insertion sort.
RECURSIVE SortByValidFrom(_)
SortByValidFrom(collections) ==
    IF collections = <<>> THEN <<>>
    ELSE LET sorted == SortByValidFrom(Front(collections))
             last == collections[Len(collections)]
             k == Cardinality({i \in 1..Len(sorted) : sorted[i].valid_from <= last.valid_from})
         IN  SubSeq(sorted, 1, k) \o <<last>> \o SubSeq(sorted, k + 1, Len(sorted))

InitTable ==
    /\ dienstboek = <<>>
    /\ dir_exists = TRUE
    /\ disk = EmptyDisk
    /\ new_timetable = NoDate
    /\ UPCOMING_TIMETABLE_DATE = NoDate
    /\ MOST_RECENT_VALID_TIMETABLE = NewCollection
    /\ VALID_TIMETABLES = <<>>
    /\ today = 0
    /\ pc = [w \in Workers |-> "idle"]
    /\ loc = [w \in Workers |-> IdleLocals]
    /\ resp = [w \in Workers |-> None]
    /\ lookup = IdleLookup
    /\ handled = IdleHandled
    /\ calls = <<>>
    /\ ALL_TIMETABLE_COLLECTIONS = <<>>
    /\ table_lock = Unlocked
    /\ shift_bodies = NoBodies
    /\ parse = IdleParse

\* index_trip_sheets writes the collection file of a date that has none.
WriteCollectionFile(x) ==
    /\ disk[x] = NoFile
    /\ disk' = IndexTripSheets(disk, Doc(<<"Dienstboek", x>>, x, PagesListing({N1})), 0)
    /\ UNCHANGED <<shift_bodies, tableVars, pageVars, dienstboek, dir_exists, new_timetable, sharedVars,
                   today, workerVars, lookup, handled>>

\* Line 39: read_dir; the entries are those of the directory at this moment.
LoadStart(w) ==
    /\ pc[w] = "idle"
    /\ \E order \in Orders(Files(disk)) :
           loc' = [loc EXCEPT ![w] = [listing |-> order, rest |-> order,
                                      collections |-> <<>>]]
    /\ pc' = [pc EXCEPT ![w] = IF dir_exists THEN "load" ELSE "failed"]
    /\ UNCHANGED <<shift_bodies, tableVars, pageVars, storeVars, new_timetable, sharedVars, today, resp,
                   lookup, handled>>

\* Lines 41-49: the next file is read and deserialized; an error ends the load.
LoadFile(w) ==
    /\ pc[w] = "load"
    /\ loc[w].rest # <<>>
    /\ IF disk[Head(loc[w].rest)] \in {NoFile, Corrupt}
       THEN /\ pc' = [pc EXCEPT ![w] = "failed"]
            /\ loc' = loc
       ELSE /\ pc' = pc
            /\ loc' = [loc EXCEPT ![w].rest = Tail(@),
                                  ![w].collections = Append(@, disk[Head(loc[w].rest)])]
    /\ UNCHANGED <<shift_bodies, tableVars, pageVars, storeVars, new_timetable, sharedVars, today, resp,
                   lookup, handled>>

\* Lines 50-51: the sort, and try_write, which fails when the lock is held.
LoadLock(w) ==
    /\ pc[w] = "load"
    /\ loc[w].rest = <<>>
    /\ loc' = [loc EXCEPT ![w].collections = SortByValidFrom(@)]
    /\ IF table_lock = Unlocked
       THEN /\ pc' = [pc EXCEPT ![w] = "write"]
            /\ table_lock' = [table_lock EXCEPT !.writer = w]
       ELSE /\ pc' = [pc EXCEPT ![w] = "failed"]
            /\ table_lock' = table_lock
    /\ UNCHANGED <<shift_bodies, ALL_TIMETABLE_COLLECTIONS, pageVars, storeVars, new_timetable, sharedVars,
                   today, resp, lookup, handled>>

\* Line 51: the assignment through the write guard, which is then dropped.
LoadPublish(w) ==
    /\ pc[w] = "write"
    /\ ALL_TIMETABLE_COLLECTIONS' = loc[w].collections
    /\ table_lock' = Unlocked
    /\ pc' = [pc EXCEPT ![w] = "done"]
    /\ UNCHANGED <<shift_bodies, pageVars, storeVars, new_timetable, sharedVars, today, loc,
                   resp, lookup, handled>>

\* Line 56: try_read, which fails when a writer holds the lock.
GetTimetablesLock(w) ==
    /\ pc[w] = "idle"
    /\ IF table_lock.writer = 0
       THEN /\ pc' = [pc EXCEPT ![w] = "read"]
            /\ table_lock' = [table_lock EXCEPT !.readers = @ \cup {w}]
       ELSE /\ pc' = [pc EXCEPT ![w] = "failed"]
            /\ table_lock' = table_lock
    /\ UNCHANGED <<shift_bodies, ALL_TIMETABLE_COLLECTIONS, pageVars, storeVars, new_timetable, sharedVars,
                   today, loc, resp, lookup, handled>>

\* Lines 56-57: the copy of the table is returned and the read guard dropped.
GetTimetablesCopy(w) ==
    /\ pc[w] = "read"
    /\ resp' = [resp EXCEPT ![w] = [ok |-> ALL_TIMETABLE_COLLECTIONS]]
    /\ table_lock' = [table_lock EXCEPT !.readers = @ \ {w}]
    /\ pc' = [pc EXCEPT ![w] = "done"]
    /\ UNCHANGED <<shift_bodies, ALL_TIMETABLE_COLLECTIONS, pageVars, storeVars, new_timetable, sharedVars,
                   today, loc, lookup, handled>>

\* The call has returned, Ok or Err.
TableReturn(w) ==
    /\ pc[w] \in {"done", "failed"}
    /\ pc' = [pc EXCEPT ![w] = "idle"]
    /\ loc' = [loc EXCEPT ![w] = IdleLocals]
    /\ resp' = [resp EXCEPT ![w] = None]
    /\ UNCHANGED <<shift_bodies, tableVars, pageVars, storeVars, new_timetable, sharedVars, today, lookup,
                   handled>>

NextTable ==
    \/ \E x \in TableDates : WriteCollectionFile(x)
    \/ \E x \in TableDates : Damage(x)
    \/ \E w \in Workers :
           \/ LoadStart(w)
           \/ LoadFile(w)
           \/ LoadLock(w)
           \/ LoadPublish(w)
           \/ GetTimetablesLock(w)
           \/ GetTimetablesCopy(w)
           \/ TableReturn(w)

SpecTable == InitTable /\ [][NextTable]_vars

\* A table in ascending order of valid_from.
Ascending(table) ==
    \A i \in 1..Len(table), j \in 1..Len(table) :
        i < j => table[i].valid_from <= table[j].valid_from

\* C26: the table is sorted ascending by valid_from; it changes only when a
\* load that has read every file of its directory listing publishes, and then
\* to all the collections that load read; a load that fails leaves the table
\* as it was; get_timetables returns the whole table, and never while a
\* writer is assigning it.
C26_CompleteSortedSnapshot ==
    [][/\ Ascending(ALL_TIMETABLE_COLLECTIONS')
       /\ ALL_TIMETABLE_COLLECTIONS' # ALL_TIMETABLE_COLLECTIONS
          => \E w \in Workers :
                 /\ pc[w] = "write" /\ pc'[w] = "done"
                 /\ Len(ALL_TIMETABLE_COLLECTIONS') = Len(loc[w].listing)
                 /\ {ALL_TIMETABLE_COLLECTIONS'[i].valid_from :
                        i \in 1..Len(ALL_TIMETABLE_COLLECTIONS')} = Range(loc[w].listing)
       /\ \A w \in Workers :
              /\ (pc[w] # "failed" /\ pc'[w] = "failed")
                 => ALL_TIMETABLE_COLLECTIONS' = ALL_TIMETABLE_COLLECTIONS
              /\ (pc[w] = "read" /\ pc'[w] = "done")
                 => /\ resp'[w] = [ok |-> ALL_TIMETABLE_COLLECTIONS]
                    /\ \A v \in Workers : pc[v] # "write"]_vars

\* C26 witness: a reader holds a table of two collections, read from the
\* directory in descending order, after a load failed on a damaged file.
C26_Witness ==
    /\ \E w \in Workers :
           /\ pc[w] = "done"
           /\ resp[w] # None
           /\ Len(resp[w].ok) = 2
           /\ resp[w].ok[1].valid_from < resp[w].ok[2].valid_from
    /\ \E w \in Workers :
           pc[w] = "failed" /\ "rest" \in DOMAIN loc[w] /\ loc[w].rest # <<>>
    /\ Len(ALL_TIMETABLE_COLLECTIONS) = 2
    /\ \E x \in TableDates : disk[x] = Corrupt

\* C27: no two calls of load_timetables_from_disk are at the same time
\* between reading the directory and publishing the table.
C27_SingleRebuilder ==
    Cardinality({w \in Workers : pc[w] \in {"load", "write"}}) <= 1

(***************************************************************************)
(* SpecBodies: save_extracted_shifts as index_trip_sheets calls it         *)
(***************************************************************************)
\* A Shift as read_pdf_stream returns it; the starting date is a day number.
ShiftBody(shift_nr, starting_date, parse_error) ==
    [shift_nr |-> shift_nr, valid_on |-> "Unknown", location |-> <<>>,
     shift_type |-> None, job |-> <<>>, starting_date |-> starting_date,
     parse_error |-> parse_error]

\* Shifts with the names G 1001, M 1001, GM 1002 and without a name, with and
\* without recorded parse errors.
ExtractedShifts ==
    {ShiftBody(shift_nr, starting_date, parse_error) :
        shift_nr \in {Name(<<"G">>, N1), Name(<<"M">>, N1), Name(<<"G", "M">>, N2), <<>>},
        starting_date \in {0, 1},
        parse_error \in {None, Some(<<MetadataFailure(1)>>)}}

\* The shifts of one source file: one, or two of the same starting date, the
\* second without parse errors.
ExtractedLists ==
    {<<shift>> : shift \in ExtractedShifts}
    \cup {list \in {<<first, second>> : first \in ExtractedShifts,
                                        second \in ExtractedShifts} :
             /\ list[2].parse_error = None
             /\ list[2].starting_date = list[1].starting_date}

\* Lines 158-160: the file name of a shift.
ShiftFileName(shift) == FilterNotAlphabetic(RemoveSpaces(shift.shift_nr))

\* Mutant of WriteShift: a shift with recorded parse errors is not written.
WriteShiftSkipErrors(dir, shift) ==
    IF shift.shift_nr = <<>> \/ shift.parse_error # None THEN dir
    ELSE Extend(dir, ShiftFileName(shift) :> shift)

\* Lines 157-169: one iteration of the loop over the shifts.
WriteShift(dir, shift) ==
    IF shift.shift_nr = <<>> THEN dir
    ELSE Extend(dir, ShiftFileName(shift) :> shift)

RECURSIVE WriteShifts(_, _)
WriteShifts(dir, shifts) ==
    IF shifts = <<>> THEN dir
    ELSE WriteShifts(WriteShift(dir, Head(shifts)), Tail(shifts))

\* save_extracted_shifts(path, shifts) on the directories of shift bodies:
\* the directory is created unless it exists, and every named shift written.
save_extracted_shifts(bodies, path, shifts) ==
    [bodies EXCEPT ![path] = WriteShifts(IF @ = NoFile THEN EmptyMap ELSE @, shifts)]

\* index_trip_sheets, lines 121-125: the shifts of a source file are saved in
\* the directory of the first shift's starting date.
SaveShifts(extracted_shifts) ==
    /\ shift_bodies' = save_extracted_shifts(shift_bodies, extracted_shifts[1].starting_date,
                                             extracted_shifts)
    /\ calls' = <<[extracted_shifts |-> extracted_shifts]>>
    /\ UNCHANGED <<tableVars, serverVars, parse>>

NextBodies == \E extracted_shifts \in ExtractedLists : SaveShifts(extracted_shifts)

SpecBodies == InitReindex /\ [][NextBodies]_vars

\* The shifts of the call just made that are written under a name.
WrittenAs(name) ==
    {i \in 1..Len(calls'[1].extracted_shifts) :
        /\ calls'[1].extracted_shifts[i].shift_nr # <<>>
        /\ ShiftFileName(calls'[1].extracted_shifts[i]) = name}

\* C28: a call of save_extracted_shifts leaves every shift body that was on
\* disk in place, and unmodified unless the call's own shifts include one
\* with the same numeric name in the same dated directory; every named shift
\* of the call, with or without recorded parse errors, is on disk after the
\* call, with the content of the last shift of that name.
C28_OtherBodiesKept ==
    [][calls' # calls
       => /\ \A x \in Dates :
                 shift_bodies[x] # NoFile
                 => /\ shift_bodies'[x] # NoFile
                    /\ \A name \in DOMAIN shift_bodies[x] :
                           /\ name \in DOMAIN shift_bodies'[x]
                           /\ \/ shift_bodies'[x][name] = shift_bodies[x][name]
                              \/ /\ x = calls'[1].extracted_shifts[1].starting_date
                                 /\ WrittenAs(name) # {}
          /\ \A i \in 1..Len(calls'[1].extracted_shifts) :
                 calls'[1].extracted_shifts[i].shift_nr # <<>>
                 => LET name == ShiftFileName(calls'[1].extracted_shifts[i])
                        dir == shift_bodies'[calls'[1].extracted_shifts[1].starting_date]
                    IN  /\ name \in DOMAIN dir
                        /\ dir[name] = calls'[1].extracted_shifts[Max(WrittenAs(name))]]_vars

\* C28 witness: a call has written a shift with recorded parse errors into a
\* directory that held, and still holds, the body of another number.
C28_Witness ==
    /\ calls # <<>>
    /\ Len(calls[1].extracted_shifts) = 1
    /\ calls[1].extracted_shifts[1].parse_error # None
    /\ calls[1].extracted_shifts[1].starting_date = 1
    /\ shift_bodies[1] # NoFile
    /\ DOMAIN shift_bodies[1] = {N1, N2}
    /\ shift_bodies[1][N2] = calls[1].extracted_shifts[1]
    /\ shift_bodies[1][N1].parse_error = None

(***************************************************************************)
(* SpecFind: find_shift, one invocation a step                             *)
(***************************************************************************)
\* The probes a lookup may make before it is cut off.
MaxProbes == 6

\* Mutant of AfterPop: the popped date stays in the list.
AfterPopKept(valid_timetables) == valid_timetables

\* valid_timetables.pop(): the list that is handed to the next invocation.
AfterPop(valid_timetables) == Front(valid_timetables)

\* The first invocation, lines 254-255 and 267-270: the collection handed in
\* is probed; the list is passed on as it is.
FindInvoke(id) ==
    /\ lookup.stage = "resolved"
    /\ lookup' =
           IF FilterNotAlphabetic(id) \in DOMAIN lookup.resolved.most_recent.pages
           THEN [lookup EXCEPT
                    !.stage = "found", !.id = id,
                    !.found = [collection |-> lookup.resolved.most_recent,
                               data |-> lookup.resolved.most_recent
                                            .pages[FilterNotAlphabetic(id)]]]
           ELSE [stage |-> "searching", date |-> lookup.date, id |-> id,
                 resolved |-> lookup.resolved, found |-> None,
                 valid_timetables |-> lookup.resolved.active, probes |-> 1]
    /\ UNCHANGED <<shift_bodies, tableVars, pageVars, storeVars, new_timetable, sharedVars,
                   today, workerVars, handled>>

\* A recursive invocation, lines 256-270: None for an empty list or a file
\* that cannot be read, else the popped collection is probed.
FindRecurse ==
    /\ lookup.stage = "searching"
    /\ lookup.probes < MaxProbes
    /\ lookup' =
           IF lookup.valid_timetables = <<>>
           THEN [lookup EXCEPT !.stage = "found", !.found = NotFound]
           ELSE IF disk[Popped(lookup.valid_timetables)] \in {NoFile, Corrupt}
           THEN [lookup EXCEPT !.stage = "found", !.found = NotFound,
                               !.valid_timetables = AfterPop(@)]
           ELSE IF FilterNotAlphabetic(lookup.id)
                   \in DOMAIN disk[Popped(lookup.valid_timetables)].pages
           THEN [lookup EXCEPT
                    !.stage = "found", !.probes = @ + 1,
                    !.valid_timetables = AfterPop(@),
                    !.found = [collection |-> disk[Popped(lookup.valid_timetables)],
                               data |-> disk[Popped(lookup.valid_timetables)]
                                            .pages[FilterNotAlphabetic(lookup.id)]]]
           ELSE [lookup EXCEPT !.probes = @ + 1, !.valid_timetables = AfterPop(@)]
    /\ UNCHANGED <<shift_bodies, tableVars, pageVars, storeVars, new_timetable, sharedVars,
                   today, workerVars, handled>>

NextFind ==
    \/ \E x \in Dates : Damage(x)
    \/ \E date \in Dates : ResolveOrPanic(date)
    \/ \E id \in Ids : FindInvoke(id)
    \/ FindRecurse
    \/ Return

SpecFind == InitResolve /\ [][NextFind]_vars

\* C29: a lookup over an active list of n dates probes at most n + 1 page
\* maps: while it searches, the probes made and the dates left add up to
\* n + 1, every invocation that does not return removes one date, the lookup
\* is never cut off, and it ends with the result of find_shift.
C29_FindShiftTerminates ==
    [][/\ lookup'.stage = "searching"
          => /\ lookup'.probes + Len(lookup'.valid_timetables)
                = Len(lookup'.resolved.active) + 1
             /\ lookup'.probes < MaxProbes
       /\ (lookup.stage = "searching" /\ lookup'.stage = "searching")
          => Len(lookup'.valid_timetables) = Len(lookup.valid_timetables) - 1
       /\ (lookup.stage = "searching" /\ lookup'.stage = "found")
          => /\ lookup'.probes <= Len(lookup.resolved.active) + 1
             /\ lookup'.found = FindShift(lookup.id, lookup.resolved.active,
                                          lookup.resolved.most_recent, disk)]_vars

\* C29 witness: a lookup over three active collections has made four probes
\* and found nothing.
C29_Witness ==
    /\ lookup.stage = "found"
    /\ "probes" \in DOMAIN lookup
    /\ Len(lookup.resolved.active) = 3
    /\ lookup.probes = 4
    /\ lookup.valid_timetables = <<>>
    /\ lookup.found = NotFound

(***************************************************************************)
(* Claims about the keys of the pages map                                  *)
(***************************************************************************)
\* The captures of a document in page order, each with its page number.
RECURSIVE CapturesFrom(_, _)
CapturesFrom(pages, page_num) ==
    IF page_num > Len(pages) THEN <<>>
    ELSE [i \in 1..Len(pages[page_num]) |->
             [name |-> pages[page_num][i], page |-> page_num]]
         \o CapturesFrom(pages, page_num + 1)

\* The captures of a document whose name without letters and spaces is k.
CapturesOf(doc, k) ==
    SelectSeq(CapturesFrom(doc.pages, 1),
              LAMBDA c : FilterNotAlphabetic(RemoveSpaces(c.name)) = k)

\* The first call indexed a document in which two names share the digits k
\* and differ in their letters.
ConflatedIn(k) ==
    /\ Len(calls) >= 1
    /\ \E i, j \in 1..Len(CapturesOf(calls[1].doc, k)) :
           FilterAlphabetic(CapturesOf(calls[1].doc, k)[i].name)
           # FilterAlphabetic(CapturesOf(calls[1].doc, k)[j].name)

\* The answer of get_shift for a request on the store the first call wrote,
\* on a day on which its collection is the only active one.
AnswerAfterFirstCall(shift_number) ==
    Answer(shift_number, <<calls[1].doc.starting_date>>,
           calls[1].store[calls[1].doc.starting_date], calls[1].store)

\* C31: two names of one document that share their digits and differ in
\* prefix become one pages entry, keyed by the digits: its page list holds the
\* pages of both in page order, its shift_prefix and file_id are those of the
\* first occurrence; a lookup by either name reaches that entry, and it is
\* rejected exactly when its prefix is not the stored one.
C31_NumericKeyConflatesPrefixes ==
    \A k \in Ids :
        ConflatedIn(k)
        => LET collection == calls[1].store[calls[1].doc.starting_date]
               captures == CapturesOf(calls[1].doc, k)
           IN  /\ collection # NoFile
               /\ k \in DOMAIN collection.pages
               /\ \A c \in Range(captures) :
                      RemoveSpaces(c.name) \in DOMAIN collection.pages
                      => RemoveSpaces(c.name) = k
               /\ collection.pages[k].pages = [i \in 1..Len(captures) |-> captures[i].page]
               /\ collection.pages[k].shift_prefix = FilterAlphabetic(captures[1].name)
               /\ collection.pages[k].file_id = calls[1].file_id
               /\ \A c \in Range(captures) :
                      LET response == AnswerAfterFirstCall(RemoveSpaces(c.name))
                      IN  /\ response.status # "NotFound"
                          /\ response.data = collection.pages[k]
                          /\ response.status = "NotAcceptable"
                             <=> FilterAlphabetic(c.name) # FilterAlphabetic(captures[1].name)

\* C31 witness: "M 1001" on page 1 and "G 1001" on page 2 were indexed as one
\* entry with the prefix M; the request G1001 is rejected, M1001 is served.
C31_Witness ==
    /\ ConflatedIn(N1)
    /\ calls[1].store[calls[1].doc.starting_date].pages[N1].pages = <<1, 2>>
    /\ calls[1].store[calls[1].doc.starting_date].pages[N1].shift_prefix = <<"M">>
    /\ AnswerAfterFirstCall(<<"G">> \o N1).status = "NotAcceptable"
    /\ AnswerAfterFirstCall(<<"M">> \o N1).status = "Ok"

(***************************************************************************)
(* Claims about the resolver and the INDEX listing                         *)
(***************************************************************************)
\* C32: for the date of a lookup, get_valid_shifts lists a number exactly
\* when find_shift finds it, and the valid_from it reports is the valid_from
\* of the collection find_shift returns, whatever the directory order.
C32_IndexAgreesWithLookup ==
    lookup.stage = "found"
    => \A order \in Orders(Files(disk)) :
           /\ (lookup.id \in DOMAIN GetValidShifts(disk, order, lookup.date))
                  <=> (lookup.found # NotFound)
           /\ lookup.found # NotFound
              => GetValidShifts(disk, order, lookup.date)[lookup.id]
                 = lookup.found.collection.valid_from

\* C33: whenever the active list returned by get_valid_timetables is not
\* empty, the most recent collection is the collection on disk whose
\* valid_from is the head of the list; it is the placeholder only when the
\* list is empty.
C33_MostRecentIsHead ==
    lookup.stage = "resolved"
    => IF lookup.resolved.active = <<>>
       THEN lookup.resolved.most_recent = NewCollection
       ELSE /\ lookup.resolved.most_recent = disk[Head(lookup.resolved.active)]
            /\ lookup.resolved.most_recent.valid_from = Head(lookup.resolved.active)

(***************************************************************************)
(* Claims about the shared resolved state                                  *)
(***************************************************************************)
\* The requests that are shift lookups.
LookupRequests == {r \in ShiftRequests : Normalized(r) \notin {REFRESH, INDEX}}

\* A request of the given kind is handled in this step.
Handles(kind) == handled = IdleHandled /\ handled' # IdleHandled /\ handled'.kind = kind

C35_PagesPointAtKnownFiles ==
    \A x \in Files(disk) :
        /\ \A k \in DOMAIN disk[x].pages :
               disk[x].pages[k].file_id \in DOMAIN disk[x].files
        /\ \A id \in Ids :
               Answer(id, <<x>>, disk[x], disk).status # "InternalServerError"

\* C35 witness: a collection was extended by a second document: it holds two
\* files and an entry for each of them.
C35_Witness ==
    \E x \in Files(disk) :
        /\ Cardinality(DOMAIN disk[x].files) = 2
        /\ {disk[x].pages[k].file_id : k \in DOMAIN disk[x].pages} = DOMAIN disk[x].files
        /\ Answer(N2, <<x>>, disk[x], disk).status = "Ok"

(***************************************************************************)
(* Claims about the token that closes a row                                *)
(***************************************************************************)
\* The step is a change of y at which job_creator fails for the row.
FinalizeFails ==
    /\ TokenStep
    /\ YChange
    /\ "error" \in DOMAIN job_creator(parse.st.row.lijn_number, parse.st.row.omloop,
                                      parse.st.row.rit, parse.st.row.start,
                                      parse.st.row.eind, parse.st.row.van,
                                      parse.st.row.naar)

\* The call before this one returned the error of a failed finalize.
FinalizeFailedBefore ==
    parse.n > 0 /\ "error" \in DOMAIN parse.ret /\ ~parse.metadata

\* The token of the step was handed to identify_metadata and to no column,
\* or went through the column tests once and not to identify_metadata.
ClassifiedOrRoutedOnce ==
    LET before == IF YChange THEN EmptyRow ELSE parse.st.row
        matches == {i \in 1..7 : InColumn(i, parse'.token.x, parse.offset)}
    IN  IF OutsideBand(parse'.token.y)
        THEN parse'.metadata /\ parse'.st.row = before
        ELSE /\ ~parse'.metadata
             /\ MetadataOf(parse'.st) = MetadataOf(parse.st)
             /\ parse'.st.row =
                    (IF matches = {} THEN before
                     ELSE [before EXCEPT ![ColumnOrder[Min(matches)]] =
                                             Some(parse'.token.text)])

\* The failed finalize leaves the locals as they were and drops the token.
TokenLost ==
    /\ parse'.st = parse.st
    /\ ~parse'.metadata
    /\ "error" \in DOMAIN parse'.ret

ClockParses(slot) ==
    /\ slot # None
    /\ Len(Split(slot.some, ":")) >= 2
    /\ ParseUnsigned(Split(slot.some, ":")[1], U8Max) # None
    /\ ParseUnsigned(Split(slot.some, ":")[2], U8Max) # None

HourOf(slot) == DecimalValue(ParseUnsigned(Split(slot.some, ":")[1], U8Max).some)
MinuteOf(slot) == DecimalValue(ParseUnsigned(Split(slot.some, ":")[2], U8Max).some)

\* The hour is 48 or more or the minute is 60 or more.
OutOfRange(slot) == ClockParses(slot) /\ (HourOf(slot) >= 48 \/ MinuteOf(slot) >= 60)
InRange(slot) == ClockParses(slot) /\ HourOf(slot) < 48 /\ MinuteOf(slot) < 60

\* C37: a start or end column whose hour is 48 or more or whose minute is 60
\* or more gives a job without that time and no error, whatever the other
\* time column holds as long as its hour and minute parse; an hour below 24
\* is taken as it is, never reduced below zero.
C37_OutOfRangeDropped ==
    (/\ parse.stage = "job"
     /\ parse.row.start = None \/ ClockParses(parse.row.start)
     /\ parse.row.eind = None \/ ClockParses(parse.row.eind))
    => /\ "ok" \in DOMAIN parse.job
       /\ OutOfRange(parse.row.start) => parse.job.ok.start = None
       /\ OutOfRange(parse.row.eind) => parse.job.ok.end = None
       /\ InRange(parse.row.start)
          => /\ parse.job.ok.start # None
             /\ parse.job.ok.start.some.hour \in 0..23
             /\ HourOf(parse.row.start) < 24
                => parse.job.ok.start.some.hour = HourOf(parse.row.start)
       /\ InRange(parse.row.eind)
          => /\ parse.job.ok.end # None
             /\ parse.job.ok.end.some.hour \in 0..23
             /\ HourOf(parse.row.eind) < 24
                => parse.job.ok.end.some.hour = HourOf(parse.row.eind)

\* C37 witness: the job of a row with the start 255:00 and the end 48:00 was
\* built without times.
C37_Witness ==
    /\ parse.stage = "job"
    /\ parse.row.start = Some(<<"2", "5", "5", ":", "0", "0">>)
    /\ parse.row.eind = Some(<<"4", "8", ":", "0", "0">>)
    /\ "ok" \in DOMAIN parse.job
    /\ parse.job.ok.start = None
    /\ parse.job.ok.end = None

(***************************************************************************)
(* Claims about an effective date that does not parse                      *)
(***************************************************************************)
\* The token of the step lies outside the band and holds the literal
\* "Ingangsdatum " followed by a text that is not a date.
BadDateToken ==
    /\ TokenStep
    /\ OutsideBand(parse'.token.y)
    /\ Contains(parse'.token.text, Ingangsdatum)
    /\ ParseDate(AfterLast(parse'.token.text, Ingangsdatum)) = None

\* C38: a metadata token with "Ingangsdatum " and a tail that is not a date
\* records MetadataFailure for the page and leaves starting_date,
\* shift_number, valid_on, location and the jobs as they were.
C38_BadDateChangesNothing ==
    [][BadDateToken
       => /\ parse'.ret = MetadataFailure(parse.page_number)
          /\ parse'.line_errors = Append(parse.line_errors, MetadataFailure(parse.page_number))
          /\ Changed = {}
          /\ parse'.st.jobs = parse.st.jobs]_vars

(***************************************************************************)
(* SpecDocument: index_trip_sheets on one source document, one page of the *)
(* loop of parse_pdf a step                                                *)
(***************************************************************************)
\* The number of pages of a document.
MaxPages == 2

\* The Contents of a page: a Reference to a stream, or another object.
Reference(page_stream) == [reference |-> page_stream]
NotReference == [not_reference |-> TRUE]

\* A page: the names the "Dienst" pattern captures in its text, and the
\* stream of its Contents.
Page(caps, contents) == [caps |-> caps, contents |-> contents]

\* Contents: a stream with one token; a stream without a literal; a literal
\* on the first line; a literal after a line of words; no Reference.
PageContents ==
    {Reference(<<CoordinateLine(100, 1000), TextLine(<<Pauze>>)>>),
     Reference(<<>>),
     Reference(<<TextLine(<<Pauze>>)>>),
     Reference(<<Line(<<Word, Word>>, <<>>), TextLine(<<Pauze>>)>>),
     NotReference}

\* Pages without a capture, and with the capture "G 1001" or "GM 1002".
DocumentPages ==
    {Page(caps, contents) :
        caps \in {<<>>, <<Name(<<"G">>, N1)>>, <<Name(<<"G", "M">>, N2)>>},
        contents \in PageContents}

PageLists == SeqsUpTo(DocumentPages, MaxPages) \ {<<>>}

\* The tokens of the lines line_number.. (from 0) of a stream after
\* line_elements, as [ok |-> tokens], or the failure of the first literal
\* that fails (lines 88-126 of parse_page).
RECURSIVE ExtractLines(_, _, _)
ExtractLines(page_stream, line_number, line_elements) ==
    IF line_number >= Len(page_stream) THEN {[ok |-> line_elements]}
    ELSE LET caps == page_stream[line_number + 1].caps
         IN  IF caps = <<>>
             THEN ExtractLines(page_stream, line_number + 1, line_elements)
             ELSE UNION {IF "ok" \in DOMAIN coordinate
                         THEN ExtractLines(page_stream, line_number + 1,
                                           line_elements
                                           \o [c \in 1..Len(caps) |->
                                                  Token(caps[c], coordinate.ok[1],
                                                        coordinate.ok[2])])
                         ELSE {coordinate} :
                            coordinate \in Coordinates(page_stream, line_number)}

\* parse_page: the outcomes, each a Shift, an error or a panic.
parse_page(page_stream, page_number, shift_number) ==
    {IF "ok" \in DOMAIN extracted
     THEN get_line_element(extracted.ok, minimal_x(extracted.ok), page_number,
                           shift_number)
     ELSE extracted :
        extracted \in ExtractLines(page_stream, 0, <<>>)}

\* reverse_pagenr_hashmap, looked up for a page: the keys of the index that
\* list the page (the map keeps one of them).
reverse_pagenr_hashmap(index, page_number) ==
    {k \in DOMAIN index : page_number \in Range(index[k].pages)}

\* index_trip_sheets up to its call of read_pdf_stream (lines 79-121), and
\* parse_pdf up to its loop (lines 34-38).
DocumentStart(pages, file_id) ==
    /\ parse.stage = "idle"
    /\ parse' = [stage |-> "pages",
                 doc |-> Doc(<<"Dienstboek", "a">>, 0,
                             [p \in 1..Len(pages) |-> pages[p].caps]),
                 contents |-> [p \in 1..Len(pages) |-> pages[p].contents],
                 file_id |-> file_id, page_number |-> 1, shifts |-> <<>>,
                 result |-> None]
    /\ UNCHANGED <<shift_bodies, tableVars, serverVars, calls>>

\* parse_pdf, lines 39-69: one page of the loop. Contents that are no
\* Reference and a page the index does not list give no Shift; an error of
\* parse_page ends parse_pdf with that error.
ParsePdfPage ==
    /\ parse.stage = "pages"
    /\ parse.page_number <= Len(parse.contents)
    /\ LET contents == parse.contents[parse.page_number]
           keys == reverse_pagenr_hashmap(BuildIndex(parse.doc, parse.file_id),
                                          parse.page_number)
       IN  IF contents = NotReference \/ keys = {}
           THEN parse' = [parse EXCEPT !.page_number = @ + 1]
           ELSE \E shift_number \in keys :
                \E parsed_shift \in parse_page(contents.reference, parse.page_number,
                                                   shift_number) :
                    IF "job" \in DOMAIN parsed_shift
                    THEN parse' = [parse EXCEPT !.page_number = @ + 1,
                                                !.shifts = Append(@, parsed_shift)]
                    ELSE IF parsed_shift = Panic
                    THEN parse' = [parse EXCEPT !.stage = "panicked",
                                                !.result = Panic]
                    ELSE parse' = [parse EXCEPT !.stage = "failed",
                                                !.result = parsed_shift]
    /\ UNCHANGED <<shift_bodies, tableVars, serverVars, calls>>

\* parse_pdf returns Ok(shifts) (line 71); index_trip_sheets, lines 122-148:
\* the first shift is unwrapped, the shifts are saved and the collection is
\* written.
DocumentWrite ==
    /\ parse.stage = "pages"
    /\ parse.page_number > Len(parse.contents)
    /\ IF parse.shifts = <<>>
       THEN /\ parse' = [parse EXCEPT !.stage = "panicked", !.result = Panic]
            /\ UNCHANGED <<shift_bodies, disk>>
       ELSE /\ parse' = [parse EXCEPT !.stage = "indexed", !.result = Ok]
            /\ shift_bodies' = save_extracted_shifts(shift_bodies,
                                                     parse.doc.starting_date,
                                                     parse.shifts)
            /\ disk' = IndexTripSheets(disk, parse.doc, parse.file_id)
    /\ UNCHANGED <<tableVars, dienstboek, dir_exists, new_timetable, sharedVars, today,
                   workerVars, lookup, handled, calls>>

\* index_trip_sheets returns the error of read_pdf_stream (line 121), and
\* load_pdf_and_index unwraps it (line 437).
DocumentUnwrap ==
    /\ parse.stage = "failed"
    /\ parse' = [parse EXCEPT !.stage = "panicked"]
    /\ UNCHANGED <<shift_bodies, tableVars, serverVars, calls>>

NextDocument ==
    \/ \E pages \in PageLists, file_id \in FileIds : DocumentStart(pages, file_id)
    \/ ParsePdfPage
    \/ DocumentWrite
    \/ DocumentUnwrap

SpecDocument == InitReindex /\ [][NextDocument]_vars

\* The page p of the document is listed by the index and has a stream.
IndexedPage(p) ==
    /\ parse.doc.pages[p] # <<>>
    /\ parse.contents[p] # NotReference

\* The stream of the page p holds no literal, or a literal that fails.
FailingPage(p) ==
    /\ IndexedPage(p)
    /\ LET page_stream == parse.contents[p].reference
       IN  \/ \A l \in 1..Len(page_stream) : page_stream[l].caps = <<>>
           \/ HasMalformedToken(page_stream)

\* The indexed pages of the document that do not fail, in page order.
OtherPages == SelectSeq([p \in 1..Len(parse.contents) |-> p],
                        LAMBDA p : IndexedPage(p) /\ ~FailingPage(p))

\* The call has ended: the collection is written, or the thread has panicked.
DocumentEnded == parse.stage \in {"indexed", "panicked"}

\* C39: when an indexed page of a document yields no tokens or fails token
\* extraction and another indexed page does not, the call ends without a
\* panic, parse_pdf has returned one Shift for every other indexed page, and
\* the collection of the document is written.
C39_PageFailureIsolated ==
    (/\ DocumentEnded
     /\ \E p \in 1..Len(parse.contents) : FailingPage(p)
     /\ OtherPages # <<>>)
    => /\ parse.stage = "indexed"
       /\ Len(parse.shifts) = Len(OtherPages)
       /\ \A i \in 1..Len(OtherPages) :
              parse.shifts[i].shift_nr = FilterNumeric(parse.doc.pages[OtherPages[i]][1])
       /\ disk[parse.doc.starting_date] # NoFile

(***************************************************************************)
(* Claims about the prefix of a request                                    *)
(***************************************************************************)
\* A lookup has just found an entry, and the request, with its spaces
\* removed and in upper case, is the entry's prefix and number, alone or
\* followed by ".JSON".
StoredNameRequested ==
    /\ handled # IdleHandled
    /\ handled.kind = "lookup"
    /\ handled.response.status # "NotFound"
    /\ LET name == handled.response.data.shift_prefix
                   \o FilterNumeric(handled.shift_number)
       IN  Normalized(handled.shift_number) \in {name, name \o <<".">> \o JSON}

\* C40: for a stored entry with prefix P and number N, the requests "PN",
\* "pN" in lower case and "PN.json" pass the prefix check, and the JSON
\* request is served as JSON.
C40_PrefixNormalised ==
    StoredNameRequested
    => /\ handled.response.status # "NotAcceptable"
       /\ IsJsonRequest(Normalized(handled.shift_number))
          => handled.response.content_type = "json"

====
